---------------------------- MODULE Spec2Model ----------------------------
(***************************************************************************)
(* Verification model of the intraday peak/valley signal engine:           *)
(*   indicators/second_level_detector.py  (fine detector + rate limiter)   *)
(*   indicators/peak_valley_detector.py   (coarse detector)                *)
(*   indicators/multi_timeframe_fusion.py (fusion)                         *)
(*   utils/tick_data_processor.py         (tick aggregation)               *)
(*   main_strategy.py                     (handle_bar evaluation cycle)    *)
(*                                                                         *)
(* Conventions.  Times are whole seconds; a datetime is the number of      *)
(* seconds since the start of the trading session.  Strengths and weights  *)
(* are in hundredths (0.6 is 60); a fused strength, the sum of two         *)
(* weight*strength products, is in ten-thousandths (0.6 is 6000).  A       *)
(* Python dict is a function whose DOMAIN is the set of keys present.      *)
(***************************************************************************)
EXTENDS Integers, Sequences, FiniteSets, TLC

VARIABLES
    now,                 \* context.now
    cursor,              \* position of handle_bar's loop in context.stocks
    window_size,         \* SecondLevelDetector.window_size (context.second_detector)
    pv_window_size,      \* PeakValleyDetector.window_size (context.peak_valley_detector)
    aggregation_seconds, \* TickDataProcessor.aggregation_seconds
    last_signal_time,    \* SecondLevelDetector.last_signal_time   (dict)
    false_signal_count,  \* SecondLevelDetector.false_signal_count (dict)
    own_last,            \* history: per stock, per type, time of its last passed fire
    own_count,           \* history: per stock, per minute, number of its passed fires
    signal_history,      \* MultiTimeframeFusion.signal_history (list)
    history_stock,       \* history: for each record of signal_history, the stock
                         \* whose fusion appended it
    tick_cache,          \* TickDataProcessor.tick_cache (defaultdict of deques)
    aggregated_cache,    \* TickDataProcessor.aggregated_cache (defaultdict of deques)
    last_update_time,    \* TickDataProcessor.last_update_time (dict)
    daily_trades,        \* context.daily_trades
    call                 \* record of the last call made: inputs, results, state before

vars == <<now, cursor, window_size, pv_window_size, aggregation_seconds, last_signal_time,
          false_signal_count, own_last, own_count, signal_history, history_stock,
          tick_cache, aggregated_cache, last_update_time, daily_trades, call>>

\* the fields set at construction
config == <<window_size, pv_window_size, aggregation_seconds>>
\* the rate limiter of the fine detector, with its history
limiter == <<last_signal_time, false_signal_count, own_last, own_count>>
\* the state of the signal fusion
fusion == <<signal_history, history_stock>>
\* the caches of the tick processor
caches == <<tick_cache, aggregated_cache, last_update_time>>
\* the trade counter of the strategy
trading == <<daily_trades>>

-----------------------------------------------------------------------------
(* Bounds of the model *)

\* number of instruments in context.stocks
NumStocks == 2
\* second of the first handle_bar call, counted from a minute boundary
FirstCall == 42
\* last second of the modelled session (one minute boundary is crossed)
MaxTime == 63
\* most scheduling periods that pass between two handle_bar calls
MaxSkip == 2
\* most ticks in a list handed to the aggregation
MaxTicks == 3
\* most prices in a series handed to an indicator, all series being tried
MaxSeries == 4

(* Program constants *)

\* TickDataProcessor(aggregation_seconds=3)
DefaultAggregation == 3

\* seconds between two evaluations: SECOND_LEVEL_CONFIG['frequency'] = '3s'
Frequency == 3
\* cooldown of _filter_signal, seconds
Cooldown == 15
\* cap of _filter_signal, fires per minute
MinuteCap == 3
\* firing threshold of the fine detector, hundredths
FineThreshold == 60
\* SECOND_LEVEL_CONFIG['window_size']
ConfigWindow == 100
\* PEAK_VALLEY_CONFIG['window_size']
PvConfigWindow == 20
\* _get_second_level_signals returns None below this many buckets
MinBuckets == 60
\* samples the fine detector needs
FineMinSamples == 20
\* period of the fine detector's RSI
FineRsiPeriod == 30

Stocks == 1..NumStocks
Types == {"peak", "valley"}
Bool3 == {"up", "flat", "down"}

-----------------------------------------------------------------------------
(* Python dict helpers *)

Has(d, k) == k \in DOMAIN d
Put(d, k, v) == (k :> v) @@ d
EmptyDict == <<>>

-----------------------------------------------------------------------------
(* SecondLevelDetector._filter_signal *)

\* f"{signal_type}_signal": one key per signal type
SignalKey(signal_type) == signal_type

\* current_time.strftime('%Y%m%d%H%M'): the calendar minute of the time
MinuteKey(t) == t \div 60

\* mutant: the cooldown test with <= for <
InCooldown_Inclusive(lst, signal_type, t) ==
    /\ Has(lst, SignalKey(signal_type))
    /\ t - lst[SignalKey(signal_type)] <= Cooldown

\* the cooldown test of _filter_signal
InCooldown(lst, signal_type, t) ==
    /\ Has(lst, SignalKey(signal_type))
    /\ t - lst[SignalKey(signal_type)] < Cooldown

\* mutant: the cap test with > for >=
CapReached_Late(n) == n > MinuteCap

\* the cap test of _filter_signal
CapReached(n) == n >= MinuteCap

\* mutant: a new minute starts a new dict of counters
MinuteCounts_Evict(cnt, mk) ==
    IF Has(cnt, mk) THEN cnt ELSE Put(EmptyDict, mk, 0)

\* if minute_key not in self.false_signal_count:
\*     self.false_signal_count[minute_key] = 0
MinuteCounts(cnt, mk) ==
    IF Has(cnt, mk) THEN cnt ELSE Put(cnt, mk, 0)

\* mutant: a suppressed candidate restarts the cooldown of its type
Suppress_Extend(lst, cnt, signal_type, t) ==
    [signal |-> FALSE, strength |-> 0,
     last |-> Put(lst, SignalKey(signal_type), t), count |-> cnt]

\* `return False, 0`, the dicts as they are
Suppress(lst, cnt, signal_type, t) ==
    [signal |-> FALSE, strength |-> 0, last |-> lst, count |-> cnt]

\* result: the returned pair and the two dicts after the call
FilterSignal(lst, cnt, signal_type, signal, strength, t) ==
    LET key == SignalKey(signal_type)
        mk == MinuteKey(t)
        cnt1 == MinuteCounts(cnt, mk)
    IN  IF InCooldown(lst, signal_type, t)
        THEN Suppress(lst, cnt, signal_type, t)
        ELSE IF CapReached(cnt1[mk])
        THEN Suppress(lst, cnt1, signal_type, t)
        ELSE IF signal
        THEN [signal |-> TRUE, strength |-> strength,
              last |-> Put(lst, key, t),
              count |-> Put(cnt1, mk, cnt1[mk] + 1)]
        ELSE [signal |-> FALSE, strength |-> strength, last |-> lst, count |-> cnt1]

\* mutant: the valley candidate is filtered before the peak candidate
FilterBoth_ValleyFirst(lst, cnt, pk, vl, t) ==
    LET fv == FilterSignal(lst, cnt, "valley", vl.signal, vl.strength, t)
        fp == FilterSignal(fv.last, fv.count, "peak", pk.signal, pk.strength, t)
    IN  [peak |-> fp, valley |-> [fv EXCEPT !.last = fp.last, !.count = fp.count]]

\* detect_second_signals, lines 99-104: _filter_signal('peak', ...), then
\* _filter_signal('valley', ...) with the same current_time, on the dicts
\* the first call left
FilterBoth(lst, cnt, pk, vl, t) ==
    LET fp == FilterSignal(lst, cnt, "peak", pk.signal, pk.strength, t)
        fv == FilterSignal(fp.last, fp.count, "valley", vl.signal, vl.strength, t)
    IN  [peak |-> fp, valley |-> fv]


-----------------------------------------------------------------------------
(* Fine detector: what the eight conditions read from the series.           *)
(* An observation is the outcome of the comparisons the code makes on the   *)
(* real-valued indicators; outcomes that exclude one another (RSI above 65  *)
(* and below 35) are one three-valued field.                                *)

Observations ==
    [ is_new_high : BOOLEAN,      \* current_price >= recent_high * 0.999
      is_new_low  : BOOLEAN,      \* current_price <= recent_low * 1.001
      rsi         : Bool3,        \* up: rsi[-1] > 65, down: rsi[-1] < 35
      vwap        : Bool3,        \* up: deviation > 0.005, down: < -0.005
      momentum    : Bool3,        \* down: m[-1] < m[-2] < m[-3], up: m[-1] > m[-2] > m[-3]
      volume_conf : BOOLEAN,      \* _check_enhanced_volume_confirmation on >= 10 volumes
      intensity   : BOOLEAN,      \* _calculate_volume_intensity(volumes) > 1.5
      micro       : Bool3,        \* up: score > 0.6, down: score < -0.6
      volatile    : BOOLEAN ]     \* volatility > mean([volatility, 0.02])

\* the observation of a series on which no comparison is evaluated
NoObservation ==
    [ is_new_high |-> FALSE, is_new_low |-> FALSE, rsi |-> "flat", vwap |-> "flat",
      momentum |-> "flat", volume_conf |-> FALSE, intensity |-> FALSE,
      micro |-> "flat", volatile |-> FALSE ]

\* weights.append(...) of _detect_enhanced_peak / _detect_enhanced_valley, hundredths
Weights == <<20, 15, 15, 10, 10, 10, 10, 10>>

RECURSIVE SumWhere(_, _, _)
\* sum(w for c, w in zip(conditions, weights) if c), from position i on
SumWhere(conditions, weights, i) ==
    IF i > Len(conditions) \/ i > Len(weights) THEN 0
    ELSE (IF conditions[i] THEN weights[i] ELSE 0) + SumWhere(conditions, weights, i + 1)

WeightedScore(conditions) == SumWhere(conditions, Weights, 1)

\* mutant: the firing test of the fine detector with > for >=
FineFires_Strict(score) == score > FineThreshold

\* weighted_score >= 0.6
FineFires(score) == score >= FineThreshold

\* len(self._calculate_rsi(prices, period))
RsiLen(n, period) == IF n < period + 1 THEN 0 ELSE n

\* len(self._calculate_momentum(prices, period))
MomentumLen(n, period) == IF n < period + 1 THEN 0 ELSE n - period

\* the derived inputs of both _detect_enhanced_* calls, as detect_second_signals
\* computes them from a price series of n samples and n_vol volumes
\*   volume_confirmation is True, volume_intensity 1.0 below 10 volumes;
\*   microstructure_score is 0 without real_time_metrics
Derived(n, n_vol, metrics, obs) ==
    [ n |-> n,
      rsi_len |-> RsiLen(n, FineRsiPeriod),
      momentum_len |-> MomentumLen(n, 10),
      volume_conf |-> IF n_vol >= 10 THEN obs.volume_conf ELSE TRUE,
      intensity |-> IF n_vol >= 10 THEN obs.intensity ELSE FALSE,
      micro |-> IF metrics THEN obs.micro ELSE "flat" ]

PeakConditions(d, obs) ==
    << obs.is_new_high,
       obs.rsi = "up",
       obs.vwap = "up",
       IF d.momentum_len >= 3 THEN obs.momentum = "down" ELSE FALSE,
       d.volume_conf,
       d.intensity,
       d.micro = "up",
       obs.volatile >>

ValleyConditions(d, obs) ==
    << obs.is_new_low,
       obs.rsi = "down",
       obs.vwap = "down",
       IF d.momentum_len >= 3 THEN obs.momentum = "up" ELSE FALSE,
       d.volume_conf,
       d.intensity,
       d.micro = "down",
       obs.volatile >>

\* len(prices) < 20 or len(rsi) == 0
FineGuard(n, rsi_len) == n < FineMinSamples \/ rsi_len = 0

\* SecondLevelDetector._detect_enhanced_peak; raised: rsi[-1] on an empty RSI
\* series, np.max of no prices
DetectEnhancedPeak(d, obs) ==
    IF FineGuard(d.n, d.rsi_len)
    THEN [signal |-> FALSE, strength |-> 0, conditions |-> <<>>, raised |-> FALSE]
    ELSE LET c == PeakConditions(d, obs)
         IN  [signal |-> FineFires(WeightedScore(c)),
              strength |-> WeightedScore(c), conditions |-> c,
              raised |-> (d.rsi_len = 0 \/ d.n = 0)]

\* SecondLevelDetector._detect_enhanced_valley
DetectEnhancedValley(d, obs) ==
    IF FineGuard(d.n, d.rsi_len)
    THEN [signal |-> FALSE, strength |-> 0, conditions |-> <<>>, raised |-> FALSE]
    ELSE LET c == ValleyConditions(d, obs)
         IN  [signal |-> FineFires(WeightedScore(c)),
              strength |-> WeightedScore(c), conditions |-> c,
              raised |-> (d.rsi_len = 0 \/ d.n = 0)]

\* SecondLevelDetector._empty_second_signal
EmptySecondSignal ==
    [peak_signal |-> FALSE, peak_strength |-> 0,
     valley_signal |-> FALSE, valley_strength |-> 0]

\* An input of detect_second_signals: plen = len(price_series), tlen =
\* len(tick_ohlcv['close']) (0: no tick_ohlcv), vlen = len(volume_series)
\* (0: None), metrics: real_time_metrics given.
\* The result: the returned signals, the candidates before _filter_signal, and
\* the limiter's dicts after the call.  The peak candidate is filtered first,
\* the valley candidate second, on the dicts the first call left.
SecondSignals(wsize, lst, cnt, inp, t) ==
    IF inp.plen < wsize
    THEN [ret |-> EmptySecondSignal, rejected |-> TRUE, raised |-> FALSE,
          peak |-> [signal |-> FALSE, strength |-> 0, conditions |-> <<>>, raised |-> FALSE],
          valley |-> [signal |-> FALSE, strength |-> 0, conditions |-> <<>>, raised |-> FALSE],
          mid_last |-> lst, mid_count |-> cnt,
          last |-> lst, count |-> cnt]
    ELSE LET n == IF inp.tlen > 0 THEN inp.tlen ELSE inp.plen
             n_vol == IF inp.tlen > 0 THEN inp.tlen ELSE inp.vlen
             d == Derived(n, n_vol, inp.metrics, inp.obs)
             pk == DetectEnhancedPeak(d, inp.obs)
             vl == DetectEnhancedValley(d, inp.obs)
             both == FilterBoth(lst, cnt, pk, vl, t)
             fp == both.peak
             fv == both.valley
         IN  [ret |-> [peak_signal |-> fp.signal, peak_strength |-> fp.strength,
                       valley_signal |-> fv.signal, valley_strength |-> fv.strength],
              rejected |-> FALSE, raised |-> (pk.raised \/ vl.raised),
              peak |-> pk, valley |-> vl,
              mid_last |-> fp.last, mid_count |-> fp.count,
              last |-> fv.last, count |-> fv.count]

-----------------------------------------------------------------------------
(* handle_bar: one evaluation cycle walks context.stocks in order, every     *)
(* stock at the same context.now, all through the one SecondLevelDetector    *)
(* that init() stored in context.second_detector.                            *)

NoCall == [op |-> "none"]

\* bucket counts get_tick_ohlcv_data(stock, context, 100) hands to
\* _get_second_level_signals: too few, enough for the call, a full window
BucketCounts == {MinBuckets - 1, MinBuckets, ConfigWindow}

\* an observation with conditions 5, 6 and 8 holding, 4 and 7 not, and
\* conditions 1 to 3 as given (score 30 + 20 + 15 + 15 at most)
Obs(high, low, rsi, vwap) ==
    [ is_new_high |-> high, is_new_low |-> low, rsi |-> rsi, vwap |-> vwap,
      momentum |-> "flat", volume_conf |-> TRUE, intensity |-> TRUE,
      micro |-> "flat", volatile |-> TRUE ]

\* the observations the cycle draws: neither candidate fires (30, 30); the
\* peak fires at the threshold (60, 30) or above it (80, 30); the valley fires
\* (30, 65); both fire (65, 65)
BarObservations ==
    { Obs(FALSE, FALSE, "flat", "flat"),
      Obs(FALSE, FALSE, "up", "up"),
      Obs(TRUE, FALSE, "up", "up"),
      Obs(FALSE, TRUE, "down", "flat"),
      Obs(TRUE, TRUE, "up", "down") }

\* the comparisons are evaluated only when both _detect_enhanced_* pass their guard
Evaluates(wsize, inp) ==
    LET n == IF inp.tlen > 0 THEN inp.tlen ELSE inp.plen
    IN  inp.plen >= wsize /\ ~FineGuard(n, RsiLen(n, FineRsiPeriod))

\* _get_second_level_signals, lines 258-265: the call on a window of b buckets
BarInput(b, o) == [plen |-> b, tlen |-> b, vlen |-> b, metrics |-> TRUE, obs |-> o]

BarInputs(wsize) ==
    { BarInput(b, NoObservation) :
        b \in {c \in BucketCounts : c >= MinBuckets /\ ~Evaluates(wsize, BarInput(c, NoObservation))} }
    \cup
    { BarInput(b, o) :
        b \in {c \in BucketCounts : c >= MinBuckets /\ Evaluates(wsize, BarInput(c, NoObservation))},
        o \in BarObservations }

\* history bookkeeping: the fires of stock s that passed the limiter in this call
Passed(ret) == {ty \in Types : IF ty = "peak" THEN ret.peak_signal ELSE ret.valley_signal}

\* d with every key of ks set to v
PutAll(d, ks, v) == [k \in ks |-> v] @@ d

RECURSIVE Bump(_, _, _)
Bump(d, k, times) ==
    IF times = 0 THEN d
    ELSE Bump(Put(d, k, (IF Has(d, k) THEN d[k] ELSE 0) + 1), k, times - 1)

\* one call of context.second_detector.detect_second_signals for stock s
CallFine(s, inp) ==
    \E res \in {SecondSignals(window_size, last_signal_time, false_signal_count, inp, now)} :
       LET passed == Passed(res.ret)
       IN  /\ last_signal_time' = res.last
           /\ false_signal_count' = res.count
           /\ own_last' = [own_last EXCEPT ![s] = PutAll(@, passed, now)]
           /\ own_count' = [own_count EXCEPT ![s] =
                  Bump(@, MinuteKey(now), Cardinality(passed))]
           /\ call' = [op |-> "detect_second", stock |-> s, time |-> now,
                       inp |-> inp, res |-> res,
                       pre_last |-> last_signal_time, pre_count |-> false_signal_count,
                       pre_own_last |-> own_last, pre_own_count |-> own_count]

\* handle_bar, lines 195-202: the fine signals of the stock under the cursor
EvaluateStock(inp) ==
    /\ cursor <= NumStocks
    /\ CallFine(cursor, inp)
    /\ cursor' = cursor + 1
    /\ UNCHANGED <<now, config, trading, caches, fusion>>

\* handle_bar, `continue` at lines 183-188 or second_signals None (fewer than
\* 60 buckets): the stock is left without a call of the fine detector
SkipStock ==
    /\ cursor <= NumStocks
    /\ cursor' = cursor + 1
    /\ call' = [op |-> "skip", stock |-> cursor, time |-> now]
    /\ UNCHANGED <<now, config, trading, caches, fusion, limiter>>

\* the scheduler calls handle_bar again, k periods later
NextBar(k) ==
    /\ cursor = NumStocks + 1
    /\ now + k * Frequency <= MaxTime
    /\ now' = now + k * Frequency
    /\ cursor' = 1
    /\ UNCHANGED <<config, trading, caches, fusion, limiter, call>>

\* the state init() leaves, but for the configured windows
Fresh ==
    /\ now = FirstCall
    /\ cursor = 1
    /\ last_signal_time = EmptyDict
    /\ false_signal_count = EmptyDict
    /\ own_last = [s \in Stocks |-> EmptyDict]
    /\ own_count = [s \in Stocks |-> EmptyDict]
    /\ daily_trades = 0
    /\ call = NoCall

\* TickDataProcessor.__init__: no key in any cache (a defaultdict reads a
\* missing key as an empty deque)
NoCaches ==
    /\ tick_cache = [s \in Stocks |-> <<>>]
    /\ aggregated_cache = [s \in Stocks |-> <<>>]
    /\ last_update_time = EmptyDict

\* init(): PeakValleyDetector(window_size=peak_config['window_size'], ...),
\* SecondLevelDetector(window_size=second_config['window_size'], ...)
Init ==
    /\ Fresh
    /\ NoCaches
    /\ signal_history = <<>> /\ history_stock = <<>>
    /\ aggregation_seconds = DefaultAggregation
    /\ window_size = ConfigWindow
    /\ pv_window_size = PvConfigWindow

Next ==
    \/ \E inp \in BarInputs(window_size) : EvaluateStock(inp)
    \/ SkipStock
    \/ \E k \in 1..MaxSkip : NextBar(k)

Spec == Init /\ [][Next]_vars

-----------------------------------------------------------------------------
(* Coarse detector: PeakValleyDetector.detect_signals *)

\* period of the coarse detector's RSI
PvRsiPeriod == 14
\* samples the coarse detector needs
PvMinSamples == 10
\* conditions that must hold for the coarse detector to fire
PvMinScore == 3

\* len(self._calculate_ma(prices, period))
MaLen(n, period) == IF n < period THEN 0 ELSE n

\* what the five conditions of either direction read from the series
CoarseObservations ==
    { o \in [ is_new_high : BOOLEAN,   \* current_price >= recent_high * 0.995
              is_new_low  : BOOLEAN,   \* current_price <= recent_low * 1.005
              rsi         : Bool3,     \* up: rsi[-1] > 70, down: rsi[-1] < 30
              deviation   : Bool3,     \* up: (price - ma5)/ma5 > min_peak_height,
                                       \* down: (ma5 - price)/ma5 > min_valley_depth
              position    : Bool3,     \* up: price > ma5[-1], down: price < ma5[-1]
              ma_order    : BOOLEAN,   \* ma5[-1] > ma10[-1]
              stagnating  : BOOLEAN,   \* recent[-1] < max(recent[:-1])
              stabilizing : BOOLEAN ]  \* recent[-1] > min(recent[:-1])
        : o.deviation # "flat" => o.position = o.deviation }

NoCoarseObservation ==
    [ is_new_high |-> FALSE, is_new_low |-> FALSE, rsi |-> "flat",
      deviation |-> "flat", position |-> "flat", ma_order |-> FALSE,
      stagnating |-> FALSE, stabilizing |-> FALSE ]

\* conditions.append(...) of _detect_peak: conditions 3, 4 and 5 are appended
\* only when their moving averages or samples exist
PvPeakConditions(n, obs) ==
    << obs.is_new_high, obs.rsi = "up" >>
    \o (IF MaLen(n, 5) > 0 THEN << obs.deviation = "up" >> ELSE << >>)
    \o (IF MaLen(n, 5) > 0 /\ MaLen(n, 10) > 0
        THEN << obs.position = "up" /\ obs.ma_order >> ELSE << >>)
    \o (IF n >= 5 THEN << obs.stagnating >> ELSE << >>)

\* conditions.append(...) of _detect_valley
PvValleyConditions(n, obs) ==
    << obs.is_new_low, obs.rsi = "down" >>
    \o (IF MaLen(n, 5) > 0 THEN << obs.deviation = "down" >> ELSE << >>)
    \o (IF MaLen(n, 5) > 0 /\ MaLen(n, 10) > 0
        THEN << obs.position = "down" >> ELSE << >>)
    \o (IF n >= 5 THEN << obs.stabilizing >> ELSE << >>)

RECURSIVE CountTrue(_, _)
\* sum(conditions), from position i on
CountTrue(conditions, i) ==
    IF i > Len(conditions) THEN 0
    ELSE (IF conditions[i] THEN 1 ELSE 0) + CountTrue(conditions, i + 1)

\* score / len(conditions) if conditions else 0, in hundredths (exact when
\* the number of conditions divides 100)
Ratio(score, k) == IF k = 0 THEN 0 ELSE (100 * score) \div k

\* mutant: the coarse firing test with > for >=
PvFires_Strict(score) == score > PvMinScore

\* peak_score >= 3
PvFires(score) == score >= PvMinScore

\* mutant: the guard of _detect_peak / _detect_valley without its RSI test
PvGuard_NoRsi(n, rsi_len) == n < PvMinSamples

\* len(prices) < 10 or len(rsi) == 0
PvGuard(n, rsi_len) == n < PvMinSamples \/ rsi_len = 0

\* the result of _detect_peak / _detect_valley on a list of conditions;
\* raised: rsi[-1] on an empty RSI series, np.max / np.min of no prices
PvDetect(n, rsi_len, conditions) ==
    IF PvGuard(n, rsi_len)
    THEN [signal |-> FALSE, strength |-> 0, conditions |-> <<>>, raised |-> FALSE]
    ELSE [signal |-> PvFires(CountTrue(conditions, 1)),
          strength |-> Ratio(CountTrue(conditions, 1), Len(conditions)),
          conditions |-> conditions,
          raised |-> (rsi_len = 0 \/ n = 0)]

\* PeakValleyDetector._empty_signal
EmptySignal ==
    [peak_signal |-> FALSE, peak_strength |-> 0,
     valley_signal |-> FALSE, valley_strength |-> 0]

\* PeakValleyDetector.detect_signals on a series of inp.n prices
Signals(wsize, inp) ==
    IF inp.n < wsize
    THEN [ret |-> EmptySignal, rejected |-> TRUE, raised |-> FALSE,
          rsi_len |-> 0,
          peak |-> [signal |-> FALSE, strength |-> 0, conditions |-> <<>>, raised |-> FALSE],
          valley |-> [signal |-> FALSE, strength |-> 0, conditions |-> <<>>, raised |-> FALSE]]
    ELSE LET rsi_len == RsiLen(inp.n, PvRsiPeriod)
             pk == PvDetect(inp.n, rsi_len, PvPeakConditions(inp.n, inp.obs))
             vl == PvDetect(inp.n, rsi_len, PvValleyConditions(inp.n, inp.obs))
         IN  [ret |-> [peak_signal |-> pk.signal, peak_strength |-> pk.strength,
                       valley_signal |-> vl.signal, valley_strength |-> vl.strength],
              rejected |-> FALSE, raised |-> (pk.raised \/ vl.raised),
              rsi_len |-> rsi_len,
              peak |-> pk, valley |-> vl]

\* window sizes a detector is constructed with
WindowSizes == {10, 20, 31}

\* the comparisons of the coarse detector are evaluated only past its guards
PvEvaluates(wsize, n) ==
    n >= wsize /\ ~PvGuard(n, RsiLen(n, PvRsiPeriod))

\* lengths of the series handed to detect_signals
CoarseLens(wsize) == {0, 9, 10, 14, 15, wsize - 1, wsize}

CoarseInputs(wsize) ==
    { [n |-> k, obs |-> NoCoarseObservation] :
        k \in {x \in CoarseLens(wsize) : ~PvEvaluates(wsize, x)} }
    \cup
    { [n |-> k, obs |-> o] :
        k \in {x \in CoarseLens(wsize) : PvEvaluates(wsize, x)},
        o \in CoarseObservations }

\* a call of detect_signals
DetectSignals(inp) ==
    /\ call.op = "none"
    /\ call' = [op |-> "detect_signals", time |-> now, inp |-> inp,
                res |-> Signals(pv_window_size, inp)]
    /\ UNCHANGED <<now, cursor, config, trading, caches, fusion, limiter>>

\* the inputs of a direct call of detect_second_signals: the lengths of the
\* price series, of tick_ohlcv['close'] (0: none) and of volume_series
\* (0: None), with and without real_time_metrics; an observation field is
\* drawn only when the code reads it
FineInputs(wsize) ==
    { inp \in [plen : {wsize - 1, wsize, FineRsiPeriod + 1},
               tlen : {0, FineMinSamples - 1, FineRsiPeriod, FineRsiPeriod + 1},
               vlen : {0, 10}, metrics : BOOLEAN, obs : {NoObservation}] :
        ~Evaluates(wsize, inp) }
    \cup
    { inp \in [plen : {wsize, FineRsiPeriod + 1},
               tlen : {0, FineRsiPeriod + 1},
               vlen : {0, 10}, metrics : BOOLEAN, obs : Observations] :
        /\ Evaluates(wsize, inp)
        /\ (inp.tlen = 0 /\ inp.vlen < 10) =>
               (~inp.obs.volume_conf /\ ~inp.obs.intensity)
        /\ ~inp.metrics => inp.obs.micro = "flat" }

\* a call of detect_second_signals
DetectSecondSignals(inp) ==
    /\ call.op = "none"
    /\ CallFine(1, inp)
    /\ UNCHANGED <<now, cursor, config, trading, caches, fusion>>

\* detectors constructed with a window of WindowSizes, nothing called yet
InitDetect ==
    /\ Fresh
    /\ NoCaches
    /\ signal_history = <<>> /\ history_stock = <<>>
    /\ aggregation_seconds = DefaultAggregation
    /\ \E w \in WindowSizes : window_size = w /\ pv_window_size = w

\* one call per behaviour: the input sets are enumerated only before it
NextDetect ==
    \/ call.op = "none" /\ \E inp \in CoarseInputs(pv_window_size) : DetectSignals(inp)
    \/ call.op = "none" /\ \E inp \in FineInputs(window_size) : DetectSecondSignals(inp)

SpecDetect == InitDetect /\ [][NextDetect]_vars

-----------------------------------------------------------------------------
(* MultiTimeframeFusion *)

\* minute_weight, second_weight (hundredths), threshold (ten-thousandths)
MinuteWeight == 70
SecondWeight == 30
FusionThreshold == 6000
\* timedelta(minutes=5), in seconds
HistoryWindow == 300

\* mutant: the strengths are added without their weights
FusedStrength_Unweighted(minute_strength, second_strength) ==
    minute_strength * 100 + second_strength * 100

\* minute_signals[...] * self.minute_weight + second_signals[...] * self.second_weight
FusedStrength(minute_strength, second_strength) ==
    minute_strength * MinuteWeight + second_strength * SecondWeight

\* mutant: either boolean confirms
ConfirmSignal_Either(minute_signal, second_signal, fused_strength) ==
    (minute_signal \/ second_signal) /\ fused_strength >= FusionThreshold

\* MultiTimeframeFusion._confirm_signal
ConfirmSignal(minute_signal, second_signal, fused_strength) ==
    IF ~minute_signal THEN FALSE
    ELSE IF fused_strength < FusionThreshold THEN FALSE
    ELSE TRUE

\* mutant: one agreement is enough for "high"
CalculateConfidence_Any(minute_signals, second_signals) ==
    IF \/ minute_signals.peak_signal = second_signals.peak_signal
       \/ minute_signals.valley_signal = second_signals.valley_signal
    THEN "high" ELSE "low"

\* MultiTimeframeFusion._calculate_confidence
CalculateConfidence(minute_signals, second_signals) ==
    LET peak_consistency ==
            minute_signals.peak_signal = second_signals.peak_signal
        valley_consistency ==
            minute_signals.valley_signal = second_signals.valley_signal
    IN  IF peak_consistency /\ valley_consistency THEN "high"
        ELSE IF peak_consistency \/ valley_consistency THEN "medium"
        ELSE "low"

\* MultiTimeframeFusion._update_signal_history: append, then keep the entries
\* of the last 5 minutes
UpdateSignalHistory(history, peak_signal, valley_signal, current_time) ==
    LET appended == Append(history, [time |-> current_time,
                                     peak_signal |-> peak_signal,
                                     valley_signal |-> valley_signal])
        cutoff_time == current_time - HistoryWindow
        Recent(e) == e.time > cutoff_time
    IN  SelectSeq(appended, Recent)

\* MultiTimeframeFusion.fuse_signals: the dict returned and the history left
Fuse(history, minute_signals, second_signals, current_time) ==
    LET peak_fused_strength ==
            FusedStrength(minute_signals.peak_strength, second_signals.peak_strength)
        valley_fused_strength ==
            FusedStrength(minute_signals.valley_strength, second_signals.valley_strength)
        peak_confirmed ==
            ConfirmSignal(minute_signals.peak_signal, second_signals.peak_signal,
                          peak_fused_strength)
        valley_confirmed ==
            ConfirmSignal(minute_signals.valley_signal, second_signals.valley_signal,
                          valley_fused_strength)
    IN  [ret |-> [peak_signal |-> peak_confirmed,
                  peak_strength |-> peak_fused_strength,
                  valley_signal |-> valley_confirmed,
                  valley_strength |-> valley_fused_strength,
                  signal_confidence |->
                      CalculateConfidence(minute_signals, second_signals)],
         history |-> UpdateSignalHistory(history, peak_confirmed,
                                         valley_confirmed, current_time)]

\* strengths handed to fuse_signals, in hundredths
FuseStrengths == {0, 60, 90}
\* the signal dicts handed to fuse_signals
SignalDicts ==
    [peak_signal : BOOLEAN, peak_strength : FuseStrengths,
     valley_signal : BOOLEAN, valley_strength : FuseStrengths]
\* the times of the call, and of an earlier call
FuseTimes == {300, 330}
PastTimes == {0, 30}
\* the histories an earlier call can have left
PastHistories ==
    {<<>>} \cup {UpdateSignalHistory(<<>>, p, v, t) :
                    p \in BOOLEAN, v \in BOOLEAN, t \in PastTimes}

\* the stocks of the records _update_signal_history keeps, after the record
\* of a fusion for a stock is appended
KeptStocks(history, stocks, stock, current_time) ==
    LET appended == Append(stocks, stock)
        times == [i \in 1..Len(history) |-> history[i].time] \o <<current_time>>
        RECURSIVE Keep(_)
        Keep(i) ==
            IF i > Len(appended) THEN <<>>
            ELSE (IF times[i] > current_time - HistoryWindow
                  THEN <<appended[i]>> ELSE <<>>) \o Keep(i + 1)
    IN  Keep(1)

\* context.signal_fusion.fuse_signals(minute_signals, second_signals,
\* current_time), in handle_bar's loop at a stock
FuseSignals(stock, minute_signals, second_signals, current_time) ==
    /\ call.op = "none"
    /\ \E r \in {Fuse(signal_history, minute_signals, second_signals, current_time)} :
        /\ signal_history' = r.history
        /\ history_stock' = KeptStocks(signal_history, history_stock, stock, current_time)
        /\ call' = [op |-> "fuse_signals",
                    stock |-> stock,
                    minute_signals |-> minute_signals,
                    second_signals |-> second_signals,
                    time |-> current_time,
                    res |-> r.ret,
                    pre_history |-> signal_history,
                    pre_stock |-> history_stock]
    /\ UNCHANGED <<now, cursor, config, trading, caches, limiter>>

InitFusion ==
    /\ Fresh
    /\ NoCaches
    /\ aggregation_seconds = DefaultAggregation
    /\ window_size = ConfigWindow /\ pv_window_size = PvConfigWindow
    /\ signal_history \in PastHistories
    /\ history_stock \in [1..Len(signal_history) -> Stocks]

NextFusion ==
    call.op = "none" /\ \E stock \in Stocks, m \in SignalDicts, s \in SignalDicts,
                           t \in FuseTimes :
        FuseSignals(stock, m, s, t)

SpecFusion == InitFusion /\ [][NextFusion]_vars

-----------------------------------------------------------------------------
(* TickDataProcessor: aggregation of ticks into buckets *)

\* tick.datetime, tick.last, tick.volume of the ticks handed in
TickTimes == {2, 4, 62}
TickPrices == {1, 2, 3}
TickVolumes == {0, 1}
Ticks == [datetime : TickTimes, last : TickPrices, volume : TickVolumes]
\* the tick lists, in any order of time
TickLists == UNION {[1..n -> Ticks] : n \in 0..MaxTicks}
\* the aggregation intervals a processor is built with
Intervals == {DefaultAggregation, 7}

\* timestamp.replace(second=(timestamp.second // agg) * agg, microsecond=0)
BucketStart(t, agg) == t - (t % 60) + ((t % 60) \div agg) * agg

\* sorted(time_groups.keys())
RECURSIVE Sorted(_)
Sorted(S) ==
    IF S = {} THEN <<>>
    ELSE LET least == CHOOSE x \in S : \A y \in S : x <= y
         IN  <<least>> \o Sorted(S \ {least})

\* sum(...) over a list of numbers
RECURSIVE Sum(_)
Sum(xs) == IF xs = <<>> THEN 0 ELSE Head(xs) + Sum(Tail(xs))

\* mutant: the last price for the highest
Max_Last(xs) == xs[Len(xs)]

\* max(prices), min(prices)
Max(xs) == CHOOSE x \in {xs[i] : i \in 1..Len(xs)} : \A i \in 1..Len(xs) : x >= xs[i]
Min(xs) == CHOOSE x \in {xs[i] : i \in 1..Len(xs)} : \A i \in 1..Len(xs) : x <= xs[i]

\* a / b as the fraction num/den; raised: the division by zero
Divide(a, b) ==
    IF b = 0 THEN [num |-> 0, den |-> 0, raised |-> TRUE]
    ELSE [num |-> a, den |-> b, raised |-> FALSE]

\* mutant: the quotient without the fallback
CalculateVwap_NoFallback(group_ticks) ==
    Divide(Sum([i \in 1..Len(group_ticks) |->
                    group_ticks[i].last * group_ticks[i].volume]),
           Sum([i \in 1..Len(group_ticks) |-> group_ticks[i].volume]))

\* TickDataProcessor._calculate_vwap
CalculateVwap(group_ticks) ==
    IF group_ticks = <<>> THEN [num |-> 0, den |-> 1, raised |-> FALSE]
    ELSE LET total_value == Sum([i \in 1..Len(group_ticks) |->
                                    group_ticks[i].last * group_ticks[i].volume])
             total_volume == Sum([i \in 1..Len(group_ticks) |-> group_ticks[i].volume])
         IN  IF total_volume > 0 THEN Divide(total_value, total_volume)
             ELSE [num |-> group_ticks[Len(group_ticks)].last, den |-> 1,
                   raised |-> FALSE]

\* time_groups[timestamp]: the ticks of a bucket, in the order of the list
GroupTicks(ticks, agg, timestamp) ==
    LET InGroup(tick) == BucketStart(tick.datetime, agg) = timestamp
    IN  SelectSeq(ticks, InGroup)

\* the ohlcv dict of one group of ticks
Ohlcv(timestamp, group_ticks) ==
    LET prices == [i \in 1..Len(group_ticks) |-> group_ticks[i].last]
        volumes == [i \in 1..Len(group_ticks) |-> group_ticks[i].volume]
    IN  [datetime |-> timestamp,
         open |-> prices[1],
         high |-> Max(prices),
         low |-> Min(prices),
         close |-> prices[Len(prices)],
         volume |-> Sum(volumes),
         tick_count |-> Len(group_ticks),
         volume_weighted_price |-> CalculateVwap(group_ticks)]

\* TickDataProcessor._aggregate_ticks
AggregateTicksOf(ticks, agg) ==
    IF ticks = <<>> THEN <<>>
    ELSE LET keys == Sorted({BucketStart(ticks[i].datetime, agg) : i \in 1..Len(ticks)})
         IN  [k \in 1..Len(keys) |-> Ohlcv(keys[k], GroupTicks(ticks, agg, keys[k]))]

\* self._aggregate_ticks(ticks)
AggregateTicks(ticks) ==
    /\ call.op = "none"
    /\ call' = [op |-> "aggregate_ticks", ticks |-> ticks,
                res |-> AggregateTicksOf(ticks, aggregation_seconds)]
    /\ UNCHANGED <<now, cursor, config, trading, caches, fusion, limiter>>

InitTicks ==
    /\ Fresh
    /\ NoCaches
    /\ signal_history = <<>> /\ history_stock = <<>>
    /\ window_size = ConfigWindow /\ pv_window_size = PvConfigWindow
    /\ aggregation_seconds \in Intervals

NextTicks ==
    call.op = "none" /\ \E ticks \in TickLists : AggregateTicks(ticks)

SpecTicks == InitTicks /\ [][NextTicks]_vars

-----------------------------------------------------------------------------
(* TickDataProcessor: the caches and aggregate_ticks_to_seconds *)

\* max_cache_size=10000
MaxCacheSize == 10000
\* while len(cache) > 500
CacheCap == 500
\* length=100
DefaultLength == 100

\* cache_key = f"{stock}_{self.aggregation_seconds}s": one key per stock of
\* a processor
CacheKey(stock) == stock

\* mutant: the newest entries are dropped
PopLeft_Newest(cache, cap) ==
    IF Len(cache) > cap THEN SubSeq(cache, 1, cap) ELSE cache

\* while len(cache) > cap: cache.popleft()
RECURSIVE PopLeft(_, _)
PopLeft(cache, cap) ==
    IF Len(cache) > cap THEN PopLeft(Tail(cache), cap) ELSE cache

\* TickDataProcessor._update_tick_cache
UpdateTickCache(cache, ticks) == PopLeft(cache \o ticks, MaxCacheSize)

\* the loop of _update_aggregated_cache: a bucket is appended unless the
\* last bucket of the cache has its datetime
RECURSIVE AppendNew(_, _)
AppendNew(cache, aggregated_data) ==
    IF aggregated_data = <<>> THEN cache
    ELSE LET data == Head(aggregated_data)
         IN  AppendNew(IF cache = <<>> \/ cache[Len(cache)].datetime # data.datetime
                       THEN Append(cache, data) ELSE cache,
                       Tail(aggregated_data))

\* TickDataProcessor._update_aggregated_cache
UpdateAggregatedCache(cache, aggregated_data) ==
    PopLeft(AppendNew(cache, aggregated_data), CacheCap)

\* TickDataProcessor._empty_ohlcv_data (avg_price and price_std, which no
\* property reads, are left out of buckets and windows alike)
EmptyOhlcvData ==
    [datetime |-> <<>>, open |-> <<>>, high |-> <<>>, low |-> <<>>,
     close |-> <<>>, volume |-> <<>>, tick_count |-> <<>>, vwap |-> <<>>]

\* xs[-k:] of Python, for k >= 0: the whole list when k = 0
Suffix(xs, k) ==
    IF k = 0 \/ k >= Len(xs) THEN xs ELSE SubSeq(xs, Len(xs) - k + 1, Len(xs))

\* list(cache)[-length:] if len(cache) >= length else list(cache)
RecentData(cache, length) ==
    IF Len(cache) >= length THEN Suffix(cache, length) ELSE cache

\* TickDataProcessor._get_cached_aggregated_data
GetCachedAggregatedData(cache, length) ==
    IF cache = <<>> THEN EmptyOhlcvData
    ELSE LET recent_data == RecentData(cache, length)
             Column(Field(_)) == [i \in 1..Len(recent_data) |-> Field(recent_data[i])]
             Datetime(d) == d.datetime
             Open(d) == d.open
             High(d) == d.high
             Low(d) == d.low
             Close(d) == d.close
             Volume(d) == d.volume
             TickCount(d) == d.tick_count
             Vwap(d) == d.volume_weighted_price
         IN  IF recent_data = <<>> THEN EmptyOhlcvData
             ELSE [datetime |-> Column(Datetime), open |-> Column(Open),
                   high |-> Column(High), low |-> Column(Low),
                   close |-> Column(Close), volume |-> Column(Volume),
                   tick_count |-> Column(TickCount), vwap |-> Column(Vwap)]

\* what get_ticks does: it raises (the name is not bound in this module, or
\* the platform fails), or it returns a list of ticks, possibly empty
Raises == [kind |-> "raise", ticks |-> <<>>]
Returns(ticks) == [kind |-> "return", ticks |-> ticks]

\* mutant: when the tick source raises, the cached ticks are used
GetTickData_FromCache(cache, source) ==
    IF source.kind = "raise" THEN [ticks |-> cache, cache |-> cache]
    ELSE IF source.ticks = <<>> THEN [ticks |-> <<>>, cache |-> cache]
    ELSE [ticks |-> source.ticks, cache |-> UpdateTickCache(cache, source.ticks)]

\* TickDataProcessor.get_tick_data: the ticks returned and the tick cache of
\* the stock; an exception of get_ticks is caught and gives []
GetTickData(cache, source) ==
    IF source.kind = "raise" THEN [ticks |-> <<>>, cache |-> cache]
    ELSE IF source.ticks = <<>> THEN [ticks |-> <<>>, cache |-> cache]
    ELSE [ticks |-> source.ticks, cache |-> UpdateTickCache(cache, source.ticks)]

\* the three caches as one value
Caches(tc, ac, lut) ==
    [tick_cache |-> tc, aggregated_cache |-> ac, last_update_time |-> lut]

\* TickDataProcessor.aggregate_ticks_to_seconds at time t: the caches left,
\* the dict returned, whether the tick source was asked, whether an
\* exception left the method
AggregateToSeconds(st, stock, source, length, t, agg) ==
    IF /\ Has(st.last_update_time, CacheKey(stock))
       /\ t - st.last_update_time[CacheKey(stock)] < 1
    THEN [st |-> st, asked |-> FALSE, raised |-> FALSE,
          ret |-> GetCachedAggregatedData(st.aggregated_cache[stock], length)]
    ELSE LET got == GetTickData(st.tick_cache[stock], source)
         IN  IF got.ticks = <<>>
             THEN [st |-> st, asked |-> TRUE, raised |-> FALSE, ret |-> EmptyOhlcvData]
             ELSE LET aggregated_data == AggregateTicksOf(got.ticks, agg)
                      cache == UpdateAggregatedCache(st.aggregated_cache[stock],
                                                     aggregated_data)
                  IN  [st |-> Caches(
                                [st.tick_cache EXCEPT ![stock] = got.cache],
                                [st.aggregated_cache EXCEPT ![stock] = cache],
                                Put(st.last_update_time, CacheKey(stock), t)),
                       asked |-> TRUE, raised |-> FALSE,
                       ret |-> GetCachedAggregatedData(cache, length)]

\* the tick lists the source returns
Tick(t, price, volume) == [datetime |-> t, last |-> price, volume |-> volume]
SourceTicks ==
    { << Tick(2, 1, 1) >>,
      << Tick(2, 1, 1), Tick(4, 2, 1) >>,
      << Tick(2, 3, 0), Tick(4, 2, 1), Tick(62, 1, 1) >> }
Sources == {Raises, Returns(<<>>)} \cup {Returns(ticks) : ticks \in SourceTicks}
\* the lengths asked for
Lengths == {0, 2, DefaultLength}

\* the caches of a processor that has never been called
EmptyCaches ==
    Caches([s \in Stocks |-> <<>>], [s \in Stocks |-> <<>>], EmptyDict)

\* the caches left by n earlier calls for stock 1, the last at time t, each
\* fetching one tick, 3 seconds after the tick before
FilledTicks(n) == [i \in 1..n |-> Tick(3 * (i - n) - 60, 1, 1)]
FilledCaches(n, t) ==
    Caches([s \in Stocks |-> IF s = 1 THEN FilledTicks(n) ELSE <<>>],
           [s \in Stocks |->
               IF s = 1
               THEN [i \in 1..n |-> Ohlcv(FilledTicks(n)[i].datetime,
                                          << FilledTicks(n)[i] >>)]
               ELSE <<>>],
           CacheKey(1) :> t)

\* the caches of a processor at time t: never called, called once or twice
\* before (in this second or the one before), or called until the bucket
\* cache of stock 1 is full or one short of it
Called(S, t, agg) ==
    {AggregateToSeconds(st, s, Returns(ticks), DefaultLength, t0, agg).st :
        st \in S, s \in Stocks, ticks \in SourceTicks, t0 \in {t - 1, t}}
PastCaches(t, agg) ==
    {EmptyCaches} \cup Called({EmptyCaches}, t, agg)
                  \cup Called(Called({EmptyCaches}, t - 1, agg), t, agg)
                  \cup {FilledCaches(n, t - 1) : n \in {CacheCap - 1, CacheCap}}

\* tick_processor.aggregate_ticks_to_seconds(stock, context, length)
AggregateTicksToSeconds(stock, source, length) ==
    /\ call.op = "none"
    /\ \E r \in {AggregateToSeconds(
                    Caches(tick_cache, aggregated_cache, last_update_time),
                    stock, source, length, now, aggregation_seconds)} :
        /\ tick_cache' = r.st.tick_cache
        /\ aggregated_cache' = r.st.aggregated_cache
        /\ last_update_time' = r.st.last_update_time
        /\ call' = [op |-> "aggregate_ticks_to_seconds", stock |-> stock,
                    source |-> source, length |-> length, time |-> now,
                    asked |-> r.asked, raised |-> r.raised, res |-> r.ret,
                    pre |-> Caches(tick_cache, aggregated_cache, last_update_time)]
    /\ UNCHANGED <<now, cursor, config, trading, fusion, limiter>>

InitCache ==
    /\ Fresh
    /\ signal_history = <<>> /\ history_stock = <<>>
    /\ window_size = ConfigWindow /\ pv_window_size = PvConfigWindow
    /\ aggregation_seconds = DefaultAggregation
    /\ \E st \in PastCaches(FirstCall, DefaultAggregation) :
        /\ tick_cache = st.tick_cache
        /\ aggregated_cache = st.aggregated_cache
        /\ last_update_time = st.last_update_time

NextCache ==
    call.op = "none" /\ \E s \in Stocks, source \in Sources, length \in Lengths :
        AggregateTicksToSeconds(s, source, length)

SpecCache == InitCache /\ [][NextCache]_vars

-----------------------------------------------------------------------------
(* TechnicalIndicators.rsi, PeakValleyDetector._calculate_rsi *)

\* a float: a fraction num/den (den > 0), infinity, or NaN
Frac(a, b) == [kind |-> "num", num |-> a, den |-> b]
Inf == [kind |-> "inf", num |-> 0, den |-> 0]
NaN == [kind |-> "nan", num |-> 0, den |-> 0]

\* price_series.diff(): NaN at the first position
Delta(prices, i) == IF i = 1 THEN NaN ELSE Frac(prices[i] - prices[i - 1], 1)

\* delta.where(delta > 0, 0) and -delta.where(delta < 0, 0): a comparison
\* with NaN is false
Gains(prices) ==
    [i \in 1..Len(prices) |->
        LET d == Delta(prices, i)
        IN  IF d.kind = "num" /\ d.num > 0 THEN d.num ELSE 0]
Losses(prices) ==
    [i \in 1..Len(prices) |->
        LET d == Delta(prices, i)
        IN  IF d.kind = "num" /\ d.num < 0 THEN 0 - d.num ELSE 0]

\* x.rolling(window=period).mean() at position i: NaN before a full window
RollingMean(xs, period, i) ==
    IF i < period THEN NaN
    ELSE Frac(Sum(SubSeq(xs, i - period + 1, i)), period)

\* gain / loss of two rolling means, neither negative, as floats divide:
\* 0/0 and NaN give NaN, a positive number over 0 gives infinity
Rs(gain, loss) ==
    IF gain.kind = "nan" \/ loss.kind = "nan" THEN NaN
    ELSE IF loss.num = 0 THEN (IF gain.num = 0 THEN NaN ELSE Inf)
    ELSE Frac(gain.num * loss.den, gain.den * loss.num)

\* 100 - (100 / (1 + rs)): 100 when rs is infinite
RsiOf(rs) ==
    IF rs.kind = "nan" THEN NaN
    ELSE IF rs.kind = "inf" THEN Frac(100, 1)
    ELSE Frac(100 * rs.num, rs.num + rs.den)

\* mutant: NaN is filled with 0
FillNa_Zero(x, value) == IF x.kind = "nan" THEN Frac(0, 1) ELSE x

\* rsi.fillna(50)
FillNa(x, value) == IF x.kind = "nan" THEN Frac(value, 1) ELSE x

\* mutant: the guard of rsi without its + 1
RsiShort_Period(n, period) == n < period

\* len(prices) < period + 1
RsiShort(n, period) == n < period + 1

\* TechnicalIndicators.rsi(prices, period)
Rsi(prices, period) ==
    IF RsiShort(Len(prices), period) THEN <<>>
    ELSE [i \in 1..Len(prices) |->
            FillNa(RsiOf(Rs(RollingMean(Gains(prices), period, i),
                            RollingMean(Losses(prices), period, i))), 50)]

\* the price series tried: all of up to MaxSeries prices, and rising,
\* falling, flat and turning ones long enough for RSI(14)
PriceLevels == {1, 2, 3}
LongSeries ==
    { [i \in 1..16 |-> i], [i \in 1..16 |-> 17 - i], [i \in 1..16 |-> 5],
      [i \in 1..16 |-> IF i <= 2 THEN 3 - i ELSE i],
      [i \in 1..16 |-> IF i <= 2 THEN i ELSE 30 - i],
      [i \in 1..15 |-> i], [i \in 1..14 |-> i] }
RsiInputs ==
    {[prices |-> prices, period |-> period] :
        prices \in UNION {[1..n -> PriceLevels] : n \in 0..MaxSeries},
        period \in {2, 3}}
    \cup {[prices |-> prices, period |-> PvRsiPeriod] : prices \in LongSeries}

\* TechnicalIndicators.rsi(prices, period)
CallRsi(inp) ==
    /\ call.op = "none"
    /\ call' = [op |-> "rsi", prices |-> inp.prices, period |-> inp.period,
                res |-> Rsi(inp.prices, inp.period)]
    /\ UNCHANGED <<now, cursor, config, trading, caches, fusion, limiter>>

-----------------------------------------------------------------------------
(* TechnicalIndicators: the lengths of the arrays each function returns *)

\* k arrays of n values each, returned without an exception
Arrays(k, n) == [lens |-> [i \in 1..k |-> n], raised |-> FALSE]

\* TechnicalIndicators.sma
Sma(n, period) == IF n < period THEN Arrays(1, 0) ELSE Arrays(1, n)
\* TechnicalIndicators.ema
Ema(n, period) == IF n < period THEN Arrays(1, 0) ELSE Arrays(1, n)
\* TechnicalIndicators.rsi
RsiArrays(n, period) == IF RsiShort(n, period) THEN Arrays(1, 0) ELSE Arrays(1, n)
\* TechnicalIndicators.macd
Macd(n, slow) == IF n < slow THEN Arrays(3, 0) ELSE Arrays(3, n)
\* TechnicalIndicators.bollinger_bands
BollingerBands(n, period) == IF n < period THEN Arrays(3, 0) ELSE Arrays(3, n)
\* TechnicalIndicators.stochastic, on high, low and close of one length
Stochastic(n, k_period) == IF n < k_period THEN Arrays(2, 0) ELSE Arrays(2, n)
\* TechnicalIndicators.atr, on high, low and close of one length
Atr(n, period) == IF n < period + 1 THEN Arrays(1, 0) ELSE Arrays(1, n)
\* TechnicalIndicators.volume_sma
VolumeSma(n, period) == IF n < period THEN Arrays(1, 0) ELSE Arrays(1, n)
\* TechnicalIndicators.find_peaks_valleys; found: the numbers of peaks and
\* of valleys scipy's find_peaks locates
FindPeaksValleys(n, distance, found) ==
    IF n < distance * 2 THEN Arrays(2, 0)
    ELSE [lens |-> found, raised |-> FALSE]

IndicatorNames ==
    {"sma", "ema", "rsi", "macd", "bollinger_bands", "stochastic", "atr",
     "volume_sma", "find_peaks_valleys"}

\* the function of a name, on n samples, with the parameter p that sets
\* its minimum window
Indicator(fn, n, p, found) ==
    CASE fn = "sma" -> Sma(n, p)
      [] fn = "ema" -> Ema(n, p)
      [] fn = "rsi" -> RsiArrays(n, p)
      [] fn = "macd" -> Macd(n, p)
      [] fn = "bollinger_bands" -> BollingerBands(n, p)
      [] fn = "stochastic" -> Stochastic(n, p)
      [] fn = "atr" -> Atr(n, p)
      [] fn = "volume_sma" -> VolumeSma(n, p)
      [] fn = "find_peaks_valleys" -> FindPeaksValleys(n, p, found)

\* what find_peaks can locate among n samples at least `distance` apart
Found(n) == {<<a, b>> : a \in {0, n \div 4}, b \in {0, n \div 4}}

\* a call of one of the functions
CallIndicator(fn, n, p, found) ==
    /\ call.op = "none"
    /\ call' = [op |-> "indicator", fn |-> fn, n |-> n, p |-> p,
                res |-> Indicator(fn, n, p, found)]
    /\ UNCHANGED <<now, cursor, config, trading, caches, fusion, limiter>>

InitIndicators ==
    /\ Fresh
    /\ NoCaches
    /\ signal_history = <<>> /\ history_stock = <<>>
    /\ window_size = ConfigWindow /\ pv_window_size = PvConfigWindow
    /\ aggregation_seconds = DefaultAggregation

NextIndicators ==
    \/ call.op = "none" /\ \E inp \in RsiInputs : CallRsi(inp)
    \/ call.op = "none" /\ \E fn \in IndicatorNames, n \in 0..(2 * MaxSeries),
                              p \in 1..MaxSeries :
           \E found \in Found(n) : CallIndicator(fn, n, p, found)

SpecIndicators == InitIndicators /\ [][NextIndicators]_vars

-----------------------------------------------------------------------------
(* Construction with any parameter *)

\* the window_size arguments PeakValleyDetector.__init__ is given: it
\* stores whatever it gets
WindowArgs == {-1, 0, PvConfigWindow}

\* the series handed to the detector built: empty, too short for RSI(14),
\* long enough for it
ConfigInputs(wsize) ==
    { [n |-> k, obs |-> NoCoarseObservation] :
        k \in {x \in {0, PvMinSamples, PvRsiPeriod + 1} : ~PvEvaluates(wsize, x)} }
    \cup
    { [n |-> k, obs |-> o] :
        k \in {x \in {0, PvMinSamples, PvRsiPeriod + 1} : PvEvaluates(wsize, x)},
        o \in CoarseObservations }

\* PeakValleyDetector(window_size=w)
InitConfig ==
    /\ Fresh
    /\ NoCaches
    /\ signal_history = <<>> /\ history_stock = <<>>
    /\ aggregation_seconds = DefaultAggregation
    /\ window_size = ConfigWindow
    /\ pv_window_size \in WindowArgs

NextConfig ==
    call.op = "none" /\ \E inp \in ConfigInputs(pv_window_size) : DetectSignals(inp)

SpecConfig == InitConfig /\ [][NextConfig]_vars

-----------------------------------------------------------------------------
(* SecondLevelDetector._analyze_microstructure *)

\* price_momentum and price_trend are in ten-thousandths (0.002 is 20),
\* volume_intensity and the score in hundredths, tick_frequency in ticks
\* per minute
MomentumLimit == 20
TrendLimit == 10
IntensityHigh == 150
IntensityLow == 70
FrequencyLimit == 30

Abs(x) == IF x < 0 THEN 0 - x ELSE x

\* mutant: a momentum of exactly 0.2% counts
MomentumScore_Inclusive(price_momentum) ==
    IF Abs(price_momentum) >= MomentumLimit
    THEN (IF price_momentum > 0 THEN 30 ELSE -30) ELSE 0

\* if abs(metrics['price_momentum']) > 0.002: score += 0.3 if ... > 0 else -0.3
MomentumScore(price_momentum) ==
    IF Abs(price_momentum) > MomentumLimit
    THEN (IF price_momentum > 0 THEN 30 ELSE -30) ELSE 0

\* if metrics['volume_intensity'] > 1.5: +0.2; elif ... < 0.7: -0.2
IntensityScore(volume_intensity) ==
    IF volume_intensity > IntensityHigh THEN 20
    ELSE IF volume_intensity < IntensityLow THEN -20 ELSE 0

\* if abs(metrics['price_trend']) > 0.001: score += 0.3 if ... > 0 else -0.3
TrendScore(price_trend) ==
    IF Abs(price_trend) > TrendLimit
    THEN (IF price_trend > 0 THEN 30 ELSE -30) ELSE 0

\* if metrics['tick_frequency'] > 30: score += 0.2
FrequencyScore(tick_frequency) ==
    IF tick_frequency > FrequencyLimit THEN 20 ELSE 0

\* max(-1.0, min(1.0, score))
Clamp(score) ==
    LET capped == IF score < 100 THEN score ELSE 100
    IN  IF capped > -100 THEN capped ELSE -100

\* SecondLevelDetector._analyze_microstructure
MicrostructureScore(metrics) ==
    Clamp(MomentumScore(metrics.price_momentum)
          + IntensityScore(metrics.volume_intensity)
          + TrendScore(metrics.price_trend)
          + FrequencyScore(metrics.tick_frequency))

\* the metrics handed in: below, at and above each limit, on both sides
MetricsInputs ==
    [price_momentum : {-30, -20, 0, 20, 30},
     volume_intensity : {60, 70, 100, 150, 160},
     price_trend : {-11, -10, 0, 10, 11},
     tick_frequency : {0, 30, 31}]

\* self._analyze_microstructure(real_time_metrics)
AnalyzeMicrostructure(metrics) ==
    /\ call.op = "none"
    /\ call' = [op |-> "analyze_microstructure", metrics |-> metrics,
                res |-> MicrostructureScore(metrics)]
    /\ UNCHANGED <<now, cursor, config, trading, caches, fusion, limiter>>

InitMicro ==
    /\ Fresh
    /\ NoCaches
    /\ signal_history = <<>> /\ history_stock = <<>>
    /\ aggregation_seconds = DefaultAggregation
    /\ window_size = ConfigWindow /\ pv_window_size = PvConfigWindow

NextMicro ==
    call.op = "none" /\ \E metrics \in MetricsInputs : AnalyzeMicrostructure(metrics)

SpecMicro == InitMicro /\ [][NextMicro]_vars

-----------------------------------------------------------------------------
(* RiskManager: calculate_sell_amount, check_exit_conditions *)

\* RISK_CONFIG, in hundredths: stop_loss_ratio 0.05, take_profit_ratio 0.08
StopLoss == 5
TakeProfit == 8
\* check_exit_conditions: `if pnl_ratio > 0.04`, `pnl_ratio - 0.02`
TrailingStart == 4
TrailingStep == 2
\* RISK_CONFIG['max_daily_trades']
MaxDailyTrades == 8

\* sell_ratio = min(0.5 + 0.5 * signal_strength, 1.0), in ten-thousandths for
\* a strength in hundredths
SellRatio(signal_strength) ==
    LET ratio == 5000 + 50 * signal_strength
    IN  IF ratio < 10000 THEN ratio ELSE 10000

\* RiskManager.calculate_sell_amount:
\* min(int(current_quantity * sell_ratio / 100) * 100, current_quantity)
CalculateSellAmount(current_quantity, signal_strength) ==
    LET sell_amount == ((current_quantity * SellRatio(signal_strength)) \div 1000000) * 100
    IN  IF sell_amount < current_quantity THEN sell_amount ELSE current_quantity

\* RiskManager.check_exit_conditions, with pnl_ratio = (current - entry) / entry
\* kept as the numerator pnl over entry_price > 0, both sides of every
\* comparison multiplied by 100 * entry_price
CheckExitConditions(entry_price, current_price) ==
    LET pnl == (current_price - entry_price) * 100
        trailing_stop == pnl - TrailingStep * entry_price
    IN  IF entry_price <= 0 THEN [exit |-> FALSE, reason |-> ""]
        ELSE IF pnl <= 0 - StopLoss * entry_price
             THEN [exit |-> TRUE, reason |-> "stop_loss"]
        ELSE IF pnl >= TakeProfit * entry_price
             THEN [exit |-> TRUE, reason |-> "take_profit"]
        ELSE IF pnl > TrailingStart * entry_price /\ pnl <= trailing_stop
             THEN [exit |-> TRUE, reason |-> "trailing_stop"]
        ELSE [exit |-> FALSE, reason |-> ""]

\* position.avg_price of the calls, and the prices seen: a loss of 6% and of
\* 5%, no change, profits of 4% to 8%
EntryPrices == {0, 100}
ExitPrices == {94, 95, 100, 104, 105, 106, 107, 108}

\* history: the highest price of the earlier calls made for this entry price
PeakBefore(entry_price) ==
    IF call.op = "check_exit" /\ call.entry_price = entry_price
    THEN (IF call.peak > call.current_price THEN call.peak ELSE call.current_price)
    ELSE entry_price

\* context.risk_manager.check_exit_conditions(entry_price, current_price)
CheckExit(entry_price, current_price) ==
    /\ call' = [op |-> "check_exit", entry_price |-> entry_price,
                current_price |-> current_price, peak |-> PeakBefore(entry_price),
                res |-> CheckExitConditions(entry_price, current_price)]
    /\ UNCHANGED <<now, cursor, config, trading, caches, fusion, limiter>>

InitExit ==
    /\ Fresh
    /\ NoCaches
    /\ signal_history = <<>> /\ history_stock = <<>>
    /\ aggregation_seconds = DefaultAggregation
    /\ window_size = ConfigWindow /\ pv_window_size = PvConfigWindow

NextExit ==
    \E entry_price \in EntryPrices, current_price \in ExitPrices :
        CheckExit(entry_price, current_price)

SpecExit == InitExit /\ [][NextExit]_vars

-----------------------------------------------------------------------------
(* handle_bar: the orders of one pass over context.stocks *)

\* get_price_series(stock, context, 50); `if len(price_data) < 30: continue`
PriceLength == 50
MinPrices == 30

\* final_signals of a stock: none, a peak of strength 0.6 or 1.0, a valley
NoSignal == [peak_signal |-> FALSE, valley_signal |-> FALSE, peak_strength |-> 0]
PeakSignal(strength) == [peak_signal |-> TRUE, valley_signal |-> FALSE, peak_strength |-> strength]
ValleySignal == [peak_signal |-> FALSE, valley_signal |-> TRUE, peak_strength |-> 0]

\* what one stock meets in a pass: the statement of the try block that raises
\* (get_price_series and _get_second_level_signals catch their own
\* exceptions, so "data" and "fusion" stand for what escapes the statements
\* around them), the length and last price of price_data, the final signals,
\* position.quantity and position.avg_price
StockInput(fails, plen, price, signals, quantity) ==
    [fails |-> fails, plen |-> plen, current_price |-> price, signals |-> signals,
     quantity |-> quantity, avg_price |-> IF quantity > 0 THEN 100 ELSE 0]

StockInputs ==
    { StockInput(f, PriceLength, 108, PeakSignal(100), 200) : f \in {"data", "detect", "fusion"} }
    \cup { StockInput("none", MinPrices - 1, 108, PeakSignal(100), 200),
           StockInput("none", PriceLength, 0, PeakSignal(100), 200) }
    \cup { StockInput("none", PriceLength, p, NoSignal, q) : p \in {100, 108}, q \in {0, 200} }
    \cup { StockInput("none", PriceLength, 100, PeakSignal(60), q) : q \in {100, 200} }
    \cup { StockInput("none", PriceLength, p, PeakSignal(100), q) : p \in {100, 108}, q \in {0, 200} }
    \cup { StockInput("none", PriceLength, 100, ValleySignal, q) : q \in {0, 200} }

\* lines 209-216: the sell of a peak
PeakOrders(stock, inp) ==
    LET sell_amount == CalculateSellAmount(inp.quantity, inp.signals.peak_strength)
    IN  IF inp.signals.peak_signal /\ inp.quantity > 0 /\ sell_amount > 0
        THEN << [stock |-> stock, amount |-> 0 - sell_amount, reason |-> "peak"] >>
        ELSE << >>

\* lines 219-227: the buy of a valley calls
\* context.risk_manager.calculate_buy_amount_v2, which RiskManager does not
\* define: the attribute lookup raises
BuyRaises(inp) ==
    /\ ~(inp.signals.peak_signal /\ inp.quantity > 0)
    /\ inp.signals.valley_signal /\ inp.quantity = 0

\* lines 230-236: the exit on stop loss or take profit
ExitOrders(stock, inp) ==
    IF inp.quantity > 0 /\ CheckExitConditions(inp.avg_price, inp.current_price).exit
    THEN << [stock |-> stock, amount |-> 0 - inp.quantity, reason |-> "exit"] >>
    ELSE << >>

\* the body of the loop for one stock, lines 180-240
ProcessStock(stock, inp) ==
    IF inp.fails = "data" THEN [orders |-> << >>, failed |-> TRUE]
    ELSE IF inp.plen < MinPrices \/ inp.current_price <= 0
         THEN [orders |-> << >>, failed |-> FALSE]
    ELSE IF inp.fails \in {"detect", "fusion"} \/ BuyRaises(inp)
         THEN [orders |-> << >>, failed |-> TRUE]
    ELSE [orders |-> PeakOrders(stock, inp) \o ExitOrders(stock, inp), failed |-> FALSE]

\* mutant: an exception of one stock ends the loop
AfterFailure_Abort(stock) == NumStocks + 1

\* lines 238-240: `except Exception ... continue`
AfterFailure(stock) == stock + 1

\* for stock in context.stocks
RECURSIVE BarLoop(_, _, _)
BarLoop(stock, inputs, acc) ==
    IF stock > NumStocks THEN acc
    ELSE LET r == ProcessStock(stock, inputs[stock])
         IN  BarLoop(IF r.failed THEN AfterFailure(stock) ELSE stock + 1, inputs,
                     [orders |-> acc.orders \o r.orders,
                      evaluated |-> acc.evaluated \cup {stock},
                      failed |-> IF r.failed THEN acc.failed \cup {stock} ELSE acc.failed])

\* handle_bar, lines 165-243
Bar(trading_time, trades, inputs) ==
    IF ~trading_time \/ trades >= MaxDailyTrades
    THEN [orders |-> << >>, evaluated |-> {}, failed |-> {}]
    ELSE BarLoop(1, inputs, [orders |-> << >>, evaluated |-> {}, failed |-> {}])

\* handle_bar(context, bar_dict); every order_shares is followed by
\* context.daily_trades += 1.  The detectors', the fusion's and the caches'
\* own state is followed in Spec, SpecFusion and SpecCache.
HandleBar(trading_time, inputs) ==
    /\ call.op = "none"
    /\ \E res \in {Bar(trading_time, daily_trades, inputs)} :
          /\ daily_trades' = daily_trades + Len(res.orders)
          /\ call' = [op |-> "handle_bar", trading_time |-> trading_time,
                      inputs |-> inputs, pre_trades |-> daily_trades,
                      orders |-> res.orders, evaluated |-> res.evaluated,
                      failed |-> res.failed, raised |-> FALSE]
    /\ UNCHANGED <<now, cursor, config, caches, fusion, limiter>>

\* before_trading(context)
BeforeTrading ==
    /\ call.op = "none"
    /\ daily_trades' = 0
    /\ call' = [op |-> "before_trading", pre_trades |-> daily_trades]
    /\ UNCHANGED <<now, cursor, config, caches, fusion, limiter>>

\* the counter at the start of a pass: 0 after before_trading, one more for
\* every earlier pass of the day that sold once
PastTrades == 0..MaxDailyTrades

InitTrading ==
    /\ now = FirstCall
    /\ cursor = 1
    /\ last_signal_time = EmptyDict
    /\ false_signal_count = EmptyDict
    /\ own_last = [s \in Stocks |-> EmptyDict]
    /\ own_count = [s \in Stocks |-> EmptyDict]
    /\ daily_trades \in PastTrades
    /\ call = NoCall
    /\ NoCaches
    /\ signal_history = <<>> /\ history_stock = <<>>
    /\ aggregation_seconds = DefaultAggregation
    /\ window_size = ConfigWindow /\ pv_window_size = PvConfigWindow

NextTrading ==
    \/ call.op = "none" /\ \E trading_time \in BOOLEAN, inputs \in [Stocks -> StockInputs] :
           HandleBar(trading_time, inputs)
    \/ BeforeTrading

SpecTrading == InitTrading /\ [][NextTrading]_vars

-----------------------------------------------------------------------------
(* handle_bar, lines 191-202: the signals of one stock, from the coarse     *)
(* detector, the fine detector and the fusion                               *)

\* coarse observations in which k of the five peak conditions hold
CoarsePeak(k) ==
    [ is_new_high |-> k >= 1, is_new_low |-> FALSE,
      rsi |-> IF k >= 2 THEN "up" ELSE "flat",
      deviation |-> IF k >= 3 THEN "up" ELSE "flat",
      position |-> IF k >= 3 THEN "up" ELSE "flat",
      ma_order |-> k >= 4, stagnating |-> k >= 5, stabilizing |-> FALSE ]

\* coarse observations in which k of the five valley conditions hold
CoarseValley(k) ==
    [ is_new_high |-> FALSE, is_new_low |-> k >= 1,
      rsi |-> IF k >= 2 THEN "down" ELSE "flat",
      deviation |-> IF k >= 3 THEN "down" ELSE "flat",
      position |-> IF k >= 4 THEN "down" ELSE "flat",
      ma_order |-> FALSE, stagnating |-> FALSE, stabilizing |-> k >= 5 ]

\* price_data of handle_bar: 30 to 50 closes (a shorter series is skipped)
PipelineCoarse ==
    { [n |-> MinPrices, obs |-> CoarsePeak(k)] : k \in 0..5 }
    \cup { [n |-> MinPrices, obs |-> CoarseValley(k)] : k \in 1..5 }

\* fine observations in which every peak or every valley condition holds
FullObservation(dir) ==
    [ is_new_high |-> dir = "up", is_new_low |-> dir = "down", rsi |-> dir, vwap |-> dir,
      momentum |-> IF dir = "up" THEN "down" ELSE "up",
      volume_conf |-> TRUE, intensity |-> TRUE, micro |-> dir, volatile |-> TRUE ]

\* what _get_second_level_signals meets: fewer than 60 buckets (None), or a
\* call of the fine detector
PipelineFine ==
    { [buckets |-> MinBuckets - 1, inp |-> BarInput(MinBuckets - 1, NoObservation)],
      [buckets |-> MinBuckets, inp |-> BarInput(MinBuckets, NoObservation)] }
    \cup { [buckets |-> ConfigWindow, inp |-> BarInput(ConfigWindow, o)] :
             o \in BarObservations \cup {FullObservation("up"), FullObservation("down")} }

\* lines 191-202: minute_signals, second_signals (the candidates, the
\* filtered signals and the limiter's dicts) and the fusion
FinalSignals(lst, cnt, history, coarse, fine, t) ==
    LET minute == Signals(pv_window_size, coarse)
        second == SecondSignals(window_size, lst, cnt, fine.inp, t)
        fused == Fuse(history, minute.ret, second.ret, t)
    IN  IF fine.buckets < MinBuckets
        THEN [minute |-> minute, has_second |-> FALSE, second |-> second,
              fused |-> fused.ret, final |-> minute.ret,
              last |-> lst, count |-> cnt, history |-> history]
        ELSE [minute |-> minute, has_second |-> TRUE, second |-> second,
              fused |-> fused.ret,
              final |-> [peak_signal |-> fused.ret.peak_signal,
                         peak_strength |-> fused.ret.peak_strength,
                         valley_signal |-> fused.ret.valley_signal,
                         valley_strength |-> fused.ret.valley_strength],
              last |-> second.last, count |-> second.count, history |-> fused.history]

\* the signals of one stock in handle_bar's loop
EvaluateSignals(stock, coarse, fine) ==
    /\ call.op = "none"
    /\ \E r \in {FinalSignals(last_signal_time, false_signal_count, signal_history,
                              coarse, fine, now)} :
          LET passed == IF r.has_second THEN Passed(r.second.ret) ELSE {}
          IN  /\ last_signal_time' = r.last
              /\ false_signal_count' = r.count
              /\ own_last' = [own_last EXCEPT ![stock] = PutAll(@, passed, now)]
              /\ own_count' = [own_count EXCEPT ![stock] =
                     Bump(@, MinuteKey(now), Cardinality(passed))]
              /\ signal_history' = r.history
              /\ history_stock' =
                     IF r.has_second
                     THEN KeptStocks(signal_history, history_stock, stock, now)
                     ELSE history_stock
              /\ call' = [op |-> "evaluate_signals", stock |-> stock, time |-> now,
                          coarse |-> coarse, fine |-> fine,
                          minute |-> r.minute, has_second |-> r.has_second,
                          second |-> r.second, fused |-> r.fused, final |-> r.final]
    /\ UNCHANGED <<now, cursor, config, trading, caches>>

\* the limiter before the call: nothing fired yet, or the first stock fired
\* a peak 12 seconds ago
InitSignals ==
    /\ now = FirstCall
    /\ cursor = 1
    /\ \/ /\ last_signal_time = EmptyDict
          /\ false_signal_count = EmptyDict
          /\ own_last = [s \in Stocks |-> EmptyDict]
          /\ own_count = [s \in Stocks |-> EmptyDict]
       \/ \E r \in {SecondSignals(ConfigWindow, EmptyDict, EmptyDict,
                                  BarInput(ConfigWindow, FullObservation("up")),
                                  FirstCall - 12)} :
             /\ last_signal_time = r.last
             /\ false_signal_count = r.count
             /\ own_last = [s \in Stocks |->
                              IF s = 1 THEN PutAll(EmptyDict, Passed(r.ret), FirstCall - 12)
                              ELSE EmptyDict]
             /\ own_count = [s \in Stocks |->
                               IF s = 1 THEN Bump(EmptyDict, MinuteKey(FirstCall - 12),
                                                  Cardinality(Passed(r.ret)))
                               ELSE EmptyDict]
    /\ daily_trades = 0
    /\ call = NoCall
    /\ NoCaches
    /\ signal_history = <<>> /\ history_stock = <<>>
    /\ aggregation_seconds = DefaultAggregation
    /\ window_size = ConfigWindow /\ pv_window_size = PvConfigWindow

NextSignals ==
    call.op = "none" /\ \E stock \in Stocks, coarse \in PipelineCoarse, fine \in PipelineFine :
        EvaluateSignals(stock, coarse, fine)

SpecSignals == InitSignals /\ [][NextSignals]_vars

-----------------------------------------------------------------------------
(* Reading the record of a fine-detector call *)

IsFineCall == call.op = "detect_second" /\ ~call.res.rejected

\* the candidate of a type before _filter_signal, and the pair returned for it
Cand(ty) == IF ty = "peak" THEN call.res.peak ELSE call.res.valley
OutSignal(ty) == IF ty = "peak" THEN call.res.ret.peak_signal ELSE call.res.ret.valley_signal
OutStrength(ty) ==
    IF ty = "peak" THEN call.res.ret.peak_strength ELSE call.res.ret.valley_strength
Suppressed(ty) == OutSignal(ty) = FALSE /\ OutStrength(ty) = 0
Unchanged(ty) == OutSignal(ty) = Cand(ty).signal /\ OutStrength(ty) = Cand(ty).strength

\* from the history: the times at which stocks of S had a fire of type ty pass
\* before the call, and how many fires of stocks of S passed in minute m
\* before the candidate of type ty was filtered (the peak of the same call
\* is filtered before the valley)
FireTimes(S, ty) ==
    {call.pre_own_last[s][ty] : s \in {x \in S : Has(call.pre_own_last[x], ty)}}

RECURSIVE CountIn(_, _, _)
CountIn(counts, S, m) ==
    IF S = {} THEN 0
    ELSE LET s == CHOOSE x \in S : TRUE
         IN  (IF Has(counts[s], m) THEN counts[s][m] ELSE 0) + CountIn(counts, S \ {s}, m)

FiresBefore(S, ty) ==
    CountIn(call.pre_own_count, S, MinuteKey(call.time))
    + (IF ty = "valley" /\ call.stock \in S /\ call.res.ret.peak_signal THEN 1 ELSE 0)

\* some fire of type ty of a stock of S passed less than Cooldown seconds ago
CoolingBy(S, ty) == \E t \in FireTimes(S, ty) : call.time - t < Cooldown

-----------------------------------------------------------------------------
\* C1: a candidate that arrives less than 15 seconds after the last fire of
\* its type that passed the limiter (a fire of the same instrument included)
\* is returned as (false, 0) whatever its score; a firing candidate that
\* arrives 15 seconds or more after that last fire (or when there is none),
\* while fewer than 3 fires passed in its minute, is returned unchanged:
\* (true, its strength).
Thm_C1_Cooldown ==
    IsFineCall =>
        \A ty \in Types :
            /\ CoolingBy(Stocks, ty) => Suppressed(ty)
            /\ CoolingBy({call.stock}, ty) => Suppressed(ty)
            /\ ( /\ Cand(ty).signal
                 /\ ~CoolingBy(Stocks, ty)
                 /\ FiresBefore(Stocks, ty) < MinuteCap )
               => (OutSignal(ty) = TRUE /\ OutStrength(ty) = Cand(ty).strength)

\* one call of one instrument in which the peak candidate fires 9 seconds
\* after this instrument's last peak and is suppressed, and the valley
\* candidate fires exactly 15 seconds after its last valley and passes
Wit_C1_Cooldown ==
    /\ IsFineCall
    /\ Cand("peak").signal /\ Cand("valley").signal
    /\ Has(call.pre_own_last[call.stock], "peak")
    /\ call.time - call.pre_own_last[call.stock]["peak"] = 9
    /\ Suppressed("peak")
    /\ Has(call.pre_own_last[call.stock], "valley")
    /\ call.time - call.pre_own_last[call.stock]["valley"] = Cooldown
    /\ OutSignal("valley") /\ OutStrength("valley") = Cand("valley").strength

Cex_C3_PerInstrument ==
    IsFineCall =>
        \A ty \in Types :
            (Cand(ty).signal /\ ~OutSignal(ty)) =>
                \/ CoolingBy({call.stock}, ty)
                \/ FiresBefore({call.stock}, ty) >= MinuteCap

-----------------------------------------------------------------------------
(* Reading the record of a detector call *)

IsCoarseCall == call.op = "detect_signals"

Neutral(ret) ==
    /\ ret.peak_signal = FALSE /\ ret.peak_strength = 0
    /\ ret.valley_signal = FALSE /\ ret.valley_strength = 0

\* the number of samples the fine detector works on
FineSamples == IF call.inp.tlen > 0 THEN call.inp.tlen ELSE call.inp.plen

\* the number of conditions of a list that hold
Satisfied(c) == Cardinality({i \in 1..Len(c) : c[i]})

\* the weights 0.2, 0.15, 0.15, 0.1, 0.1, 0.1, 0.1, 0.1 of the conditions of
\* a list of eight that hold, in hundredths
WeightOf(c) ==
      (IF c[1] THEN 20 ELSE 0) + (IF c[2] THEN 15 ELSE 0) + (IF c[3] THEN 15 ELSE 0)
    + (IF c[4] THEN 10 ELSE 0) + (IF c[5] THEN 10 ELSE 0) + (IF c[6] THEN 10 ELSE 0)
    + (IF c[7] THEN 10 ELSE 0) + (IF c[8] THEN 10 ELSE 0)

\* C6: both detectors return peak_signal = false, peak_strength = 0,
\* valley_signal = false, valley_strength = 0, and raise nothing, on a series
\* shorter than the configured window_size, on fewer than 10 (coarse) or 20
\* (fine) samples, and when the RSI series is empty (fewer than 15 samples
\* for the coarse RSI(14), fewer than 31 for the fine RSI(30)).
Thm_C6_Neutral ==
    /\ (IsCoarseCall /\ ( \/ call.inp.n < pv_window_size
                          \/ call.inp.n < 10
                          \/ call.inp.n < 15 ))
         => (Neutral(call.res.ret) /\ ~call.res.raised)
    /\ (call.op = "detect_second" /\ ( \/ call.inp.plen < window_size
                                       \/ FineSamples < 20
                                       \/ FineSamples < 31 ))
         => (Neutral(call.res.ret) /\ ~call.res.raised)

\* a fine call that passes the window test on 30 samples: enough samples,
\* but the RSI(30) series is empty
Wit_C6_Neutral ==
    /\ call.op = "detect_second"
    /\ call.inp.plen >= window_size
    /\ FineSamples = 30
    /\ Neutral(call.res.ret)

\* C7: for each direction the coarse detector's signal is true exactly when
\* at least 3 of its applicable conditions hold, its strength is satisfied /
\* applicable, and with all 5 conditions applicable the signal is true
\* exactly when the strength is at least 3/5.
Thm_C7_CoarseRule ==
    (IsCoarseCall /\ ~call.res.rejected) =>
        \A r \in {call.res.peak, call.res.valley} :
            Len(r.conditions) > 0 =>
                /\ Len(r.conditions) <= 5
                /\ (r.signal <=> Satisfied(r.conditions) >= 3)
                /\ r.strength * Len(r.conditions) = 100 * Satisfied(r.conditions)
                /\ (Len(r.conditions) = 5 => (r.signal <=> r.strength >= 60))

\* the peak fires on exactly 3 of 5 conditions, with strength 3/5
Wit_C7_CoarseRule ==
    /\ IsCoarseCall
    /\ Len(call.res.peak.conditions) = 5
    /\ Satisfied(call.res.peak.conditions) = 3
    /\ call.res.ret.peak_signal /\ call.res.ret.peak_strength = 60

\* C8: for each direction the fine detector evaluates exactly 8 conditions,
\* of weights 0.2, 0.15, 0.15, 0.1, 0.1, 0.1, 0.1, 0.1 (1.0 in total); before
\* rate limiting its signal is true exactly when the weights of the
\* satisfied conditions sum to at least 0.6, and its strength is that sum.
Thm_C8_FineRule ==
    (IsFineCall /\ Evaluates(window_size, call.inp)) =>
        \A ty \in Types :
            /\ Len(Cand(ty).conditions) = 8
            /\ (Cand(ty).signal <=> WeightOf(Cand(ty).conditions) >= 60)
            /\ Cand(ty).strength = WeightOf(Cand(ty).conditions)
            /\ WeightOf(<<TRUE, TRUE, TRUE, TRUE, TRUE, TRUE, TRUE, TRUE>>) = 100

\* the peak candidate fires with a sum of exactly 0.6, the valley candidate
\* does not fire with 0.55
Wit_C8_FineRule ==
    /\ IsFineCall
    /\ Cand("peak").signal /\ Cand("peak").strength = 60
    /\ ~Cand("valley").signal /\ Cand("valley").strength = 55

-----------------------------------------------------------------------------
(* Reading the record of a fusion call *)

IsFuseCall == call.op = "fuse_signals"

\* the number of booleans, of peak and valley, on which the coarse and the
\* fine dict agree
Agreements ==
      (IF call.minute_signals.peak_signal = call.second_signals.peak_signal
       THEN 1 ELSE 0)
    + (IF call.minute_signals.valley_signal = call.second_signals.valley_signal
       THEN 1 ELSE 0)

\* C4: for every input of fuse_signals and each direction, the fused boolean
\* is true exactly when the coarse boolean is true and the fused strength
\* (0.7 * coarse + 0.3 * fine) is at least the threshold 0.6; with the coarse
\* boolean false the fused boolean is false, whatever the fine boolean.
Thm_C4_FusionGate ==
    IsFuseCall =>
        /\ call.res.peak_strength =
               70 * call.minute_signals.peak_strength
             + 30 * call.second_signals.peak_strength
        /\ call.res.valley_strength =
               70 * call.minute_signals.valley_strength
             + 30 * call.second_signals.valley_strength
        /\ (call.res.peak_signal <=>
               (call.minute_signals.peak_signal /\ call.res.peak_strength >= 6000))
        /\ (call.res.valley_signal <=>
               (call.minute_signals.valley_signal /\ call.res.valley_strength >= 6000))
        /\ (~call.minute_signals.peak_signal => ~call.res.peak_signal)
        /\ (~call.minute_signals.valley_signal => ~call.res.valley_signal)

\* coarse peak false, fine peak true, fused strength 0.9: the fused peak is false
Wit_C4_FusionGate ==
    /\ IsFuseCall
    /\ ~call.minute_signals.peak_signal
    /\ call.second_signals.peak_signal
    /\ call.res.peak_strength = 9000
    /\ ~call.res.peak_signal

\* C5: signal_confidence is "high" exactly when the coarse and the fine
\* booleans agree on both peak and valley, "medium" exactly when they agree
\* on one of the two, "low" exactly when on neither, whatever the strengths
\* and the fused booleans.
Thm_C5_Confidence ==
    IsFuseCall =>
        /\ (call.res.signal_confidence = "high" <=> Agreements = 2)
        /\ (call.res.signal_confidence = "medium" <=> Agreements = 1)
        /\ (call.res.signal_confidence = "low" <=> Agreements = 0)

\* the dicts agree on the peak only, with a confirmed peak: "medium"
Wit_C5_Confidence ==
    /\ IsFuseCall
    /\ call.minute_signals.peak_signal /\ call.second_signals.peak_signal
    /\ call.minute_signals.valley_signal /\ ~call.second_signals.valley_signal
    /\ call.res.peak_signal
    /\ call.res.signal_confidence = "medium"

-----------------------------------------------------------------------------
(* Reading the record of an aggregation *)

IsAggregation == call.op = "aggregate_ticks"

\* the positions in the tick list of the ticks whose time, floored to the
\* aggregation interval, is the start of a bucket
TicksOf(bucket) ==
    {i \in 1..Len(call.ticks) :
        BucketStart(call.ticks[i].datetime, aggregation_seconds) = bucket.datetime}

\* the last of a non-empty set of positions
Latest(I) == CHOOSE i \in I : \A j \in I : j <= i

\* sum of f over a finite set of positions
RECURSIVE Total(_, _)
Total(f, I) ==
    IF I = {} THEN 0
    ELSE LET i == CHOOSE j \in I : TRUE IN f[i] + Total(f, I \ {i})

\* C9: in every bucket made from a non-empty tick list, in any order,
\* high >= open, close, low and low <= open, close; tick_count >= 1; volume
\* >= 0 (the tick volumes are non-negative); and every tick is counted in
\* exactly one bucket.
Thm_C9_BucketInvariants ==
    (IsAggregation /\ call.ticks # <<>>) =>
        /\ Len(call.res) >= 1
        /\ \A k \in 1..Len(call.res) :
            LET b == call.res[k]
            IN  /\ b.high >= b.open /\ b.high >= b.close /\ b.high >= b.low
                /\ b.low <= b.open /\ b.low <= b.close
                /\ b.tick_count >= 1
                /\ b.volume >= 0
                /\ b.tick_count = Cardinality(TicksOf(b))
        /\ \A i \in 1..Len(call.ticks) :
            Cardinality({k \in 1..Len(call.res) : i \in TicksOf(call.res[k])}) = 1

\* a bucket of three ticks out of time order whose first price is the
\* highest and whose last is neither the highest nor the lowest
Wit_C9_BucketInvariants ==
    /\ IsAggregation
    /\ Len(call.ticks) = 3
    /\ call.ticks[1].datetime > call.ticks[2].datetime
    /\ \E k \in 1..Len(call.res) :
        LET b == call.res[k]
        IN  /\ b.tick_count = 3
            /\ b.open = b.high /\ b.close < b.high /\ b.close > b.low

\* C10: the vwap of a bucket whose ticks have total volume 0 is the price of
\* the bucket's last tick; otherwise it is sum(price * volume) / sum(volume);
\* no division by zero occurs.
Thm_C10_Vwap ==
    IsAggregation =>
        \A k \in 1..Len(call.res) :
            LET b == call.res[k]
                vwap == b.volume_weighted_price
                value == Total([i \in 1..Len(call.ticks) |->
                                   call.ticks[i].last * call.ticks[i].volume], TicksOf(b))
                volume == Total([i \in 1..Len(call.ticks) |->
                                   call.ticks[i].volume], TicksOf(b))
            IN  /\ ~vwap.raised /\ vwap.den # 0
                /\ volume = 0 =>
                       vwap.num = call.ticks[Latest(TicksOf(b))].last * vwap.den
                /\ volume # 0 => vwap.num * volume = value * vwap.den

\* a bucket of two ticks without volume, of different prices, next to a
\* bucket with volume
Wit_C10_Vwap ==
    /\ IsAggregation
    /\ \E k \in 1..Len(call.res) :
        LET b == call.res[k]
        IN  /\ b.tick_count = 2 /\ b.volume = 0 /\ b.open # b.close
            /\ b.volume_weighted_price = [num |-> b.close, den |-> 1, raised |-> FALSE]
    /\ \E k \in 1..Len(call.res) : call.res[k].volume > 0

-----------------------------------------------------------------------------
(* Reading the record of an aggregate_ticks_to_seconds call *)

IsIngestCall == call.op = "aggregate_ticks_to_seconds"

\* the call asked the tick source and got ticks: it ingested them
Ingested == IsIngestCall /\ call.asked /\ call.source.ticks # <<>>

\* the buckets of the ticks the call ingested
IngestedBuckets == AggregateTicksOf(call.source.ticks, aggregation_seconds)

\* the datetimes of a list of buckets
Datetimes(buckets) == [i \in 1..Len(buckets) |-> buckets[i].datetime]

\* C11: after any sequence of ingestions the bucket cache of an instrument
\* holds at most one bucket per start timestamp, carrying the values of the
\* most recent ingestion of that timestamp, and ingesting the same bucket
\* list twice leaves the cache as ingesting it once does.
\* Counterexample: the buckets ingested are the whole cache already, and
\* the cache grows: the first of them is held twice.
Cex_C11_LastWriteWins ==
    /\ Ingested
    /\ call.pre.aggregated_cache[call.stock] = IngestedBuckets
    /\ aggregated_cache[call.stock] # call.pre.aggregated_cache[call.stock]
    /\ \E i, j \in 1..Len(aggregated_cache[call.stock]) :
        /\ i < j
        /\ aggregated_cache[call.stock][i].datetime
             = aggregated_cache[call.stock][j].datetime

\* C12: after every update of a bucket cache each instrument's cache holds
\* at most 500 buckets; the buckets dropped are the earliest inserted, the
\* others keep their order of insertion (what is left of the old cache,
\* then the new buckets, the last ingested bucket last); the cache of
\* another instrument is not changed.
Thm_C12_BoundedFifo ==
    /\ \A s \in Stocks : Len(aggregated_cache[s]) <= 500
    /\ Ingested =>
        LET old == call.pre.aggregated_cache[call.stock]
            new == aggregated_cache[call.stock]
        IN  /\ \A s \in Stocks \ {call.stock} :
                aggregated_cache[s] = call.pre.aggregated_cache[s]
            /\ new[Len(new)].datetime
                 = IngestedBuckets[Len(IngestedBuckets)].datetime
            /\ \E dropped \in 0..Len(old), kept \in 0..Len(IngestedBuckets) :
                /\ dropped > 0 => Len(new) = 500
                /\ new = SubSeq(old, dropped + 1, Len(old))
                         \o SubSeq(IngestedBuckets,
                                   Len(IngestedBuckets) - kept + 1,
                                   Len(IngestedBuckets))

\* a full cache of 500 buckets takes 3 new buckets and loses its first 3,
\* next to the untouched cache of another instrument
Wit_C12_BoundedFifo ==
    /\ Ingested
    /\ Len(call.pre.aggregated_cache[call.stock]) = 500
    /\ Len(IngestedBuckets) = 3
    /\ Len(aggregated_cache[call.stock]) = 500
    /\ aggregated_cache[call.stock][1] = call.pre.aggregated_cache[call.stock][4]
    /\ aggregated_cache[call.stock][500] = IngestedBuckets[3]

\* C14: for every length >= 0 and every cache, _get_cached_aggregated_data
\* returns exactly min(length, cache size) buckets, the last of the cache,
\* in fields of that one length; on an empty cache, fields of length 0.
\* Counterexample: length 0 on a cache that holds buckets returns them all.
Cex_C14_WindowLength ==
    /\ IsIngestCall
    /\ call.length = 0
    /\ Len(aggregated_cache[call.stock]) > 0
    /\ call.res.close = [i \in 1..Len(aggregated_cache[call.stock]) |->
                            aggregated_cache[call.stock][i].close]

\* C15: when the tick source raises or returns no ticks,
\* aggregate_ticks_to_seconds returns the empty OHLCV structure, no
\* exception leaves it, and the tick cache, the bucket cache and the
\* last-update time of every instrument are as before.
Thm_C15_UpstreamFailure ==
    (IsIngestCall /\ call.asked /\ call.source.ticks = <<>>) =>
        /\ ~call.raised
        /\ \A f \in DOMAIN call.res : call.res[f] = <<>>
        /\ DOMAIN call.res = {"datetime", "open", "high", "low", "close",
                              "volume", "tick_count", "vwap"}
        /\ tick_cache = call.pre.tick_cache
        /\ aggregated_cache = call.pre.aggregated_cache
        /\ last_update_time = call.pre.last_update_time

\* the tick source raises for an instrument whose caches hold ticks and
\* buckets of the second before
Wit_C15_UpstreamFailure ==
    /\ IsIngestCall /\ call.asked
    /\ call.source.kind = "raise"
    /\ tick_cache[call.stock] # <<>>
    /\ aggregated_cache[call.stock] # <<>>
    /\ Has(last_update_time, call.stock)
    /\ call.res.close = <<>>

-----------------------------------------------------------------------------
\* C13: for every aggregation interval a processor is configured with, each
\* tick is placed in the bucket that starts at the tick's timestamp floored
\* to a multiple of the interval: bucket starts are multiples of the
\* interval and every bucket covers exactly one interval.
\* Counterexample: two buckets of one aggregation start a time apart that
\* is no multiple of the interval, so they are not both multiples of it,
\* whatever the origin of time: the second of the minute is floored, and
\* the last bucket of a minute is cut at the minute.
Cex_C13_BucketFloor ==
    /\ IsAggregation
    /\ \E i, j \in 1..Len(call.res) :
        (call.res[j].datetime - call.res[i].datetime) % aggregation_seconds # 0

-----------------------------------------------------------------------------
\* the records of a history that the fusions of a stock appended
RecordsOf(history, stocks, s) ==
    {i \in 1..Len(history) : stocks[i] = s}

\* C16: after a fuse_signals call at time t the history holds the record
\* the call appended and no record 5 minutes old or older; histories are
\* kept per instrument: a fusion for one instrument neither adds records
\* to nor prunes records from the history of another.
\* Counterexample: the fusion of one stock removes the only record, less
\* than 5 minutes old when that stock was last fused, of another stock,
\* and leaves its own record in the one list every stock's fusion reads.
Cex_C16_HistoryPerInstrument ==
    /\ IsFuseCall
    /\ \E s \in Stocks \ {call.stock} :
        /\ RecordsOf(call.pre_history, call.pre_stock, s) # {}
        /\ RecordsOf(signal_history, history_stock, s) = {}
    /\ Len(signal_history) = 1
    /\ signal_history[1].time = call.time
    /\ history_stock = <<call.stock>>

-----------------------------------------------------------------------------
(* Reading the record of an indicator call *)

IsRsiCall == call.op = "rsi"

\* the differences of the price series in the window of its last position
LastDeltas ==
    {call.prices[i] - call.prices[i - 1] :
        i \in (Len(call.prices) - call.period + 1)..Len(call.prices)}

\* the last value of the RSI series returned
LastRsi == call.res[Len(call.res)]

\* C17: for every price series of at least period + 1 samples, every value
\* rsi returns lies in [0, 100]; the last value is 100 when all deltas of
\* its window are positive, 0 when all are negative, 50 when all are zero.
Thm_C17_RsiRange ==
    (IsRsiCall /\ Len(call.prices) >= call.period + 1) =>
        /\ Len(call.res) = Len(call.prices)
        /\ \A i \in 1..Len(call.res) :
            /\ call.res[i].kind = "num" /\ call.res[i].den > 0
            /\ 0 <= call.res[i].num
            /\ call.res[i].num <= 100 * call.res[i].den
        /\ (\A d \in LastDeltas : d > 0) => LastRsi.num = 100 * LastRsi.den
        /\ (\A d \in LastDeltas : d < 0) => LastRsi.num = 0
        /\ (\A d \in LastDeltas : d = 0) => LastRsi.num * 1 = 50 * LastRsi.den

\* RSI(14) of 16 flat prices: 50 at every position
Wit_C17_RsiRange ==
    /\ IsRsiCall
    /\ call.period = 14 /\ Len(call.prices) = 16
    /\ LastDeltas = {0}
    /\ \A i \in 1..16 : call.res[i] = [kind |-> "num", num |-> 50, den |-> 1]

\* C18: whenever the rolling mean of the losses of the RSI window is 0, the
\* RSI value of the position is the sentinel 50, whatever the mean of the
\* gains.
\* Counterexample: RSI(14) of 16 rising prices: no loss in the last
\* window, gains in it, and the last value is 100.
Cex_C18_RsiSentinel ==
    /\ IsRsiCall
    /\ call.period = 14 /\ Len(call.prices) = 16
    /\ \A d \in LastDeltas : d > 0
    /\ LastRsi = [kind |-> "num", num |-> 100, den |-> 1]

\* the minimum window of each function for its parameter
MinWindow(fn, p) ==
    CASE fn \in {"rsi", "atr"} -> p + 1
      [] fn = "find_peaks_valleys" -> 2 * p
      [] OTHER -> p

\* the number of arrays each function returns
ArraysOf(fn) ==
    CASE fn \in {"macd", "bollinger_bands"} -> 3
      [] fn \in {"stochastic", "find_peaks_valleys"} -> 2
      [] OTHER -> 1

\* C19: each function of TechnicalIndicators returns an empty array, or a
\* tuple of empty arrays, and raises nothing, on an input shorter than its
\* minimum window (period; period + 1 for rsi and atr; slow for macd;
\* 2 * distance for the peak/valley locator); on an input long enough sma
\* returns one value per position.
Thm_C19_ShortInput ==
    call.op = "indicator" =>
        /\ call.n < MinWindow(call.fn, call.p) =>
            /\ ~call.res.raised
            /\ Len(call.res.lens) = ArraysOf(call.fn)
            /\ \A i \in 1..Len(call.res.lens) : call.res.lens[i] = 0
        /\ (call.fn = "sma" /\ call.n >= call.p) => call.res.lens = <<call.n>>

\* rsi on exactly period samples, one short of its window: empty
Wit_C19_ShortInput ==
    /\ call.op = "indicator"
    /\ call.fn = "rsi" /\ call.n = call.p /\ call.n = 3
    /\ call.res.lens = <<0>>

-----------------------------------------------------------------------------
\* C20: constructing PeakValleyDetector, SecondLevelDetector,
\* MultiTimeframeFusion or TickDataProcessor with an invalid parameter (a
\* negative or zero window or interval, a negative weight or threshold)
\* fails at construction: no instance holding such a parameter is created
\* and later used.
\* Counterexample: a PeakValleyDetector holding window_size = -1 evaluates
\* a series of 15 prices and returns a peak signal.
Cex_C20_FailFast ==
    /\ IsCoarseCall
    /\ pv_window_size < 0
    /\ call.inp.n = 15
    /\ ~call.res.rejected
    /\ call.res.ret.peak_signal

-----------------------------------------------------------------------------
\* C21: _analyze_microstructure returns the sum of +0.3/-0.3 by the sign of
\* the momentum when |momentum| > 0.2%, +0.2 when the volume intensity is
\* above 1.5 and -0.2 when it is below 0.7, +0.3/-0.3 by the sign of the
\* trend when |trend| > 0.1%, +0.2 when the tick frequency is above 30 per
\* minute, clamped to [-1, 1]: the result lies in [-1, 1].
Thm_C21_Microstructure ==
    call.op = "analyze_microstructure" =>
        LET m == call.metrics
            sum == (IF m.price_momentum > 20 THEN 30
                    ELSE IF m.price_momentum < -20 THEN -30 ELSE 0)
                 + (IF m.volume_intensity > 150 THEN 20
                    ELSE IF m.volume_intensity < 70 THEN -20 ELSE 0)
                 + (IF m.price_trend > 10 THEN 30
                    ELSE IF m.price_trend < -10 THEN -30 ELSE 0)
                 + (IF m.tick_frequency > 30 THEN 20 ELSE 0)
        IN  /\ call.res >= -100 /\ call.res <= 100
            /\ call.res = (IF sum > 100 THEN 100 ELSE IF sum < -100 THEN -100 ELSE sum)

\* a momentum of exactly 0.2% adds nothing beside a falling trend, a low
\* volume intensity and a high tick frequency: -0.3 - 0.2 + 0.2
Wit_C21_Microstructure ==
    /\ call.op = "analyze_microstructure"
    /\ call.metrics.price_momentum = 20
    /\ call.metrics.price_trend = -11
    /\ call.metrics.volume_intensity = 60
    /\ call.metrics.tick_frequency = 31
    /\ call.res = -30

-----------------------------------------------------------------------------
(* Reading the record of a pass of handle_bar *)

IsBar == call.op = "handle_bar"

\* a pass that reaches the loop over context.stocks
Loops == IsBar /\ call.trading_time /\ call.pre_trades < MaxDailyTrades

\* the orders of the pass for one stock
OrdersOf(stock) == SelectSeq(call.orders, LAMBDA o : o.stock = stock)

\* shares the pass submitted for sale for one stock
RECURSIVE Sold(_)
Sold(orders) ==
    IF orders = << >> THEN 0
    ELSE (IF Head(orders).amount < 0 THEN 0 - Head(orders).amount ELSE 0) + Sold(Tail(orders))

\* C22: when the evaluation of one instrument raises in handle_bar (data
\* fetch, detection, fusion or order step), every following instrument is
\* still evaluated in the same cycle, with the orders its own inputs give,
\* and handle_bar does not raise.
Thm_C22_Isolation ==
    Loops =>
        /\ call.evaluated = Stocks
        /\ ~call.raised
        /\ \A s \in Stocks :
              /\ (s \in call.failed) <=> ProcessStock(s, call.inputs[s]).failed
              /\ OrdersOf(s) = ProcessStock(s, call.inputs[s]).orders

\* the first instrument raises and a later one is evaluated and sells
Wit_C22_Isolation ==
    /\ Loops
    /\ 1 \in call.failed
    /\ \E s \in Stocks : s > 1 /\ s \in call.evaluated /\ OrdersOf(s) # << >>

\* C28: between two before_trading resets context.daily_trades never
\* exceeds max_daily_trades (8).  Here a pass that starts below the cap
\* ends above it.
Cex_C28_DailyCap ==
    /\ IsBar
    /\ call.pre_trades < MaxDailyTrades
    /\ daily_trades > MaxDailyTrades

\* C29: in one pass of handle_bar the shares submitted in sell orders for an
\* instrument (peak sell plus stop-loss/take-profit exit) never exceed the
\* quantity held at the start of the pass, and a buy and a sell are never
\* both submitted for one instrument.  Here a peak sell and an exit of the
\* whole position are both submitted for the same instrument.
Cex_C29_Oversell ==
    /\ IsBar
    /\ \E s \in Stocks :
          /\ Len(OrdersOf(s)) = 2
          /\ Sold(OrdersOf(s)) > call.inputs[s].quantity

-----------------------------------------------------------------------------
(* Reading the record of a call of check_exit_conditions *)

IsExitCheck == call.op = "check_exit"

\* the profit ratio of a price, in hundredths of the entry price
Profit(price) == (price - call.entry_price) * 100

\* C30: once the profit ratio has exceeded 4%, a retracement of 2 points
\* makes check_exit_conditions return an exit with the trailing-stop reason;
\* otherwise it exits exactly on a profit ratio <= -stop_loss_ratio or
\* >= take_profit_ratio, and returns (false, "") when entry_price <= 0.  Here
\* the profit has been above 4% in an earlier call, the price is 2 points or
\* more below that high with neither stop loss nor take profit reached, and
\* the call returns no exit.
Cex_C30_TrailingStop ==
    /\ IsExitCheck
    /\ call.entry_price > 0
    /\ Profit(call.peak) > TrailingStart * call.entry_price
    /\ Profit(call.peak) < TakeProfit * call.entry_price
    /\ Profit(call.current_price) <= Profit(call.peak) - TrailingStep * call.entry_price
    /\ Profit(call.current_price) > 0 - StopLoss * call.entry_price
    /\ call.res = [exit |-> FALSE, reason |-> ""]

-----------------------------------------------------------------------------
(* Reading the record of the signals of one stock *)

IsEvaluation == call.op = "evaluate_signals"

\* a strength in hundredths lies in [0, 1]
InUnit(strength) == strength >= 0 /\ strength <= 100

\* C23: every peak and valley strength of the coarse detector, of the fine
\* detector (before and after rate limiting) and of fuse_signals with the
\* default weights 0.7 / 0.3 lies in [0, 1], the fused strength being
\* coarse * 0.7 + fine * 0.3.
Thm_C23_StrengthRange ==
    IsEvaluation =>
        /\ InUnit(call.minute.ret.peak_strength) /\ InUnit(call.minute.ret.valley_strength)
        /\ (call.has_second =>
             /\ InUnit(call.second.peak.strength) /\ InUnit(call.second.valley.strength)
             /\ InUnit(call.second.ret.peak_strength)
             /\ InUnit(call.second.ret.valley_strength)
             /\ call.fused.peak_strength >= 0 /\ call.fused.peak_strength <= 10000
             /\ call.fused.valley_strength >= 0 /\ call.fused.valley_strength <= 10000
             /\ call.fused.peak_strength =
                    70 * call.minute.ret.peak_strength + 30 * call.second.ret.peak_strength
             /\ call.fused.valley_strength =
                    70 * call.minute.ret.valley_strength
                    + 30 * call.second.ret.valley_strength)

\* both detectors give a peak of strength 1, the limiter lets it pass and
\* the fused strength is 1
Wit_C23_StrengthRange ==
    /\ IsEvaluation
    /\ call.has_second
    /\ call.minute.ret.peak_strength = 100
    /\ call.second.peak.strength = 100
    /\ call.second.ret.peak_signal
    /\ call.fused.peak_strength = 10000

-----------------------------------------------------------------------------
(* Reading the limiter's dicts around the two _filter_signal calls of a     *)
(* detect_second_signals call: the peak candidate is filtered on the dicts  *)
(* before the call, the valley candidate on the dicts the peak left         *)

IsDetectCall == call.op = "detect_second"

LastBefore(ty) == IF ty = "peak" THEN call.pre_last ELSE call.res.mid_last
LastAfter(ty) == IF ty = "peak" THEN call.res.mid_last ELSE call.res.last
CountBefore(ty) == IF ty = "peak" THEN call.pre_count ELSE call.res.mid_count
CountAfter(ty) == IF ty = "peak" THEN call.res.mid_count ELSE call.res.count

\* every key of d is a key of e
KeysKept(d, e) == \A k \in DOMAIN d : k \in DOMAIN e
\* every key of d is a key of e, with the same value
ValuesKept(d, e) == \A k \in DOMAIN d : k \in DOMAIN e /\ e[k] = d[k]

\* the candidate arrives less than 15 seconds after the last fire of its type
Cooling(ty) == ty \in DOMAIN LastBefore(ty) /\ call.time - LastBefore(ty)[ty] < 15
\* fires recorded for the minute of the call when the candidate is filtered
Recorded(ty) ==
    IF MinuteKey(call.time) \in DOMAIN CountBefore(ty)
    THEN CountBefore(ty)[MinuteKey(call.time)] ELSE 0
\* the candidate fires and passes the cooldown check and the cap check
Passes(ty) == Cand(ty).signal /\ ~Cooling(ty) /\ Recorded(ty) < 3

\* C24: the rate limiter never evicts: no entry of the per-minute counter map
\* or of the last-fire map is ever removed, and a minute key is created, with
\* count 0, for every candidate that reaches the cap check in a new minute,
\* also when the candidate does not fire.
Thm_C24_NoEviction ==
    IsDetectCall =>
        /\ KeysKept(call.pre_last, last_signal_time)
        /\ KeysKept(call.pre_count, false_signal_count)
        /\ last_signal_time = call.res.last /\ false_signal_count = call.res.count
        /\ ~call.res.rejected =>
             \A ty \in Types :
                /\ KeysKept(LastBefore(ty), LastAfter(ty))
                /\ KeysKept(CountBefore(ty), CountAfter(ty))
                /\ ~Cooling(ty) =>
                     /\ MinuteKey(call.time) \in DOMAIN CountAfter(ty)
                     /\ (MinuteKey(call.time) \notin DOMAIN CountBefore(ty) /\ ~Cand(ty).signal)
                        => CountAfter(ty)[MinuteKey(call.time)] = 0

\* in a new minute, with the counter of an earlier minute in the map, a
\* peak candidate that does not fire reaches the cap check: the new minute
\* gets a counter of 0 and the earlier counter stays
Wit_C24_NoEviction ==
    /\ IsFineCall
    /\ call.pre_count # EmptyDict
    /\ MinuteKey(call.time) \notin DOMAIN call.pre_count
    /\ ~Cand("peak").signal /\ ~Cooling("peak")
    /\ call.res.mid_count[MinuteKey(call.time)] = 0
    /\ \E m \in DOMAIN call.pre_count : false_signal_count[m] = call.pre_count[m] /\ m # MinuteKey(call.time)

\* C25: a last-fire timestamp or a counter value changes only when a
\* candidate with signal = true passes both the cooldown check and the cap
\* check; then the last fire of its type becomes the current time and the
\* counter of the minute grows by 1.  Candidates that do not fire or are
\* suppressed, and calls rejected for a short series, leave every existing
\* last-fire and counter value as it was: a suppressed candidate never
\* extends the cooldown.
Thm_C25_LimiterFrame ==
    IsDetectCall =>
        /\ call.res.rejected =>
             (last_signal_time = call.pre_last /\ false_signal_count = call.pre_count)
        /\ ~call.res.rejected =>
             \A ty \in Types :
                /\ Passes(ty) =>
                     /\ LastAfter(ty)[ty] = call.time
                     /\ \A k \in DOMAIN LastBefore(ty) \ {ty} :
                            k \in DOMAIN LastAfter(ty) /\ LastAfter(ty)[k] = LastBefore(ty)[k]
                     /\ CountAfter(ty)[MinuteKey(call.time)] = Recorded(ty) + 1
                     /\ \A m \in DOMAIN CountBefore(ty) \ {MinuteKey(call.time)} :
                            m \in DOMAIN CountAfter(ty) /\ CountAfter(ty)[m] = CountBefore(ty)[m]
                /\ ~Passes(ty) =>
                     /\ LastAfter(ty) = LastBefore(ty)
                     /\ ValuesKept(CountBefore(ty), CountAfter(ty))

\* a firing peak candidate is suppressed by the cooldown and the last peak
\* fire keeps its earlier time, while the valley candidate of the same call
\* passes and is recorded
Wit_C25_LimiterFrame ==
    /\ IsFineCall
    /\ Cand("peak").signal /\ Cooling("peak")
    /\ last_signal_time["peak"] = call.pre_last["peak"]
    /\ last_signal_time["peak"] < call.time
    /\ Passes("valley")
    /\ last_signal_time["valley"] = call.time

-----------------------------------------------------------------------------
\* the datetimes of a list of buckets are strictly increasing
Increasing(buckets) ==
    \A i \in 1..(Len(buckets) - 1) : buckets[i].datetime < buckets[i + 1].datetime

\* C27: after any sequence of aggregate_ticks_to_seconds refreshes (windows
\* that overlap included) the bucket start timestamps in the cache of the
\* instrument are strictly increasing.
\* Counterexample: the cache was in increasing order before the refresh,
\* and after it a bucket is followed by a bucket of an earlier start.
Cex_C27_Chronological ==
    /\ Ingested
    /\ Increasing(call.pre.aggregated_cache[call.stock])
    /\ ~Increasing(aggregated_cache[call.stock])
    /\ \E i \in 1..(Len(aggregated_cache[call.stock]) - 1) :
          aggregated_cache[call.stock][i + 1].datetime
            < aggregated_cache[call.stock][i].datetime

=============================================================================
